---- MODULE Spec2Model ----
(***************************************************************************)
(* Lifecycle orchestration of InferBench: the instance registries          *)
(* (core/registry.py), the server manager (servers/manager.py), the client *)
(* manager (clients/manager.py) and the monitor manager                    *)
(* (monitors/manager.py), against an arbitrary SLURM scheduler whose       *)
(* commands the orchestrator (core/slurm.py) runs and parses.              *)
(*                                                                         *)
(* One service instance and one client run are followed, except where the  *)
(* ids of new instances are drawn.  Every registry                         *)
(* call is one atomic step (the registry's RLock); the manager's own       *)
(* reads and stores of an instance's fields are steps of their own,        *)
(* because registry.get and registry.register hand out and keep the very   *)
(* object the manager holds.                                               *)
(***************************************************************************)
EXTENDS Integers, Sequences, FiniteSets, TLC

VARIABLES
    services,      \* ServiceRegistry._services: id -> ServiceInstance
    service_file,  \* the snapshot ServiceRegistry._persist_state wrote last
    runs,          \* RunRegistry._runs: id -> ClientRun
    run_file,      \* the snapshot RunRegistry._persist_state wrote last
    clock,         \* time.time() / datetime.now(), in seconds
    starter,       \* the thread inside ServerManager.start_service
    stopper,       \* the thread inside ServerManager.stop_service
    poller,        \* the thread inside ServerManager.get_service_status
    runner,        \* the thread inside ClientManager.run_client
    slurm,         \* what the scheduler did: the jobs it accepted, and the
                   \* orchestrator call made last where its commands are followed
    store,         \* ServiceRegistry's lock, the bytes of its file, and the
                   \* registry calls in progress, where they are followed
                   \* statement by statement
    monitor_manager \* MonitorManager: its _monitors and the call made last

vars == <<services, service_file, runs, run_file, clock,
          starter, stopper, poller, runner, slurm, store, monitor_manager>>

(***************************************************************************)
(* Bounds of the model.                                                    *)
(***************************************************************************)
MaxTimeout == 10      \* the largest timeout a caller passes, in seconds
MaxClock == 1         \* the registry-only specification stops the clock here
MaxHours == 2         \* the hours that pass where instances age
MaxCalls == 2         \* the registry calls made where they are followed statement by statement

(***************************************************************************)
(* Values.                                                                 *)
(***************************************************************************)
None == "None"                       \* Python's None, where a string may stand
NoTime == -1                         \* Python's None, where a datetime may stand
EmptyMap == [k \in {} |-> ""]        \* {}

PENDING == "pending"
STARTING == "starting"
RUNNING == "running"
STOPPING == "stopping"
STOPPED == "stopped"
ERROR == "error"
UNKNOWN == "unknown"
ServiceStatus == {PENDING, STARTING, RUNNING, STOPPING, STOPPED, ERROR, UNKNOWN}

SUBMITTED == "submitted"
QUEUED == "queued"
COMPLETED == "completed"
FAILED == "failed"
CANCELED == "canceled"
RunStatus == {SUBMITTED, QUEUED, RUNNING, COMPLETED, FAILED, CANCELED, UNKNOWN}

\* What get_job_status can answer: the state mapping's six results.
JobStatusAnswers == {RUNNING, PENDING, STOPPING, STOPPED, ERROR, UNKNOWN}

\* Python truthiness of an Optional[str].
Truthy(s) == s # None /\ s # ""

(***************************************************************************)
(* The one service id, run id and the job ids the scheduler hands out.     *)
(***************************************************************************)
ServiceId == "svc00001"
RunId == "run00001"
ServiceJob == "1001"
RunJob == "1002"
Nodes == {"mel2091", "mel2092"}
RecipeName == "test-server"
ClientRecipeName == "test-client"

\* The port lists of the server recipes tried: none declared, one port
\* named api, api declared before metrics, and api declared after it.
PortLists ==
    { << >>,
      << [name |-> "api", port |-> 8080] >>,
      << [name |-> "api", port |-> 8080], [name |-> "metrics", port |-> 9090] >>,
      << [name |-> "metrics", port |-> 9090], [name |-> "api", port |-> 8080] >> }

Timeouts == {0, 3, MaxTimeout}

(***************************************************************************)
(* Formatting: str(int) and the f-string of an endpoint URL.               *)
(***************************************************************************)
Digit(d) == CASE d = 0 -> "0" [] d = 1 -> "1" [] d = 2 -> "2" [] d = 3 -> "3"
              [] d = 4 -> "4" [] d = 5 -> "5" [] d = 6 -> "6" [] d = 7 -> "7"
              [] d = 8 -> "8" [] d = 9 -> "9"

RECURSIVE IntToStr(_)
IntToStr(n) == IF n < 10 THEN Digit(n) ELSE IntToStr(n \div 10) \o Digit(n % 10)

EndpointUrl(node, port) == "http://" \o node \o ":" \o IntToStr(port)

\* ServerRecipe.get_primary_port() or 8000
DefaultPort == 8000
get_primary_port(ports) == IF Len(ports) > 0 THEN ports[1].port ELSE 0
PrimaryPort(ports) ==
    IF get_primary_port(ports) # 0 THEN get_primary_port(ports) ELSE DefaultPort

\* endpoints[k] = v on a dict
DictSet(d, k, v) == (k :> v) @@ d

\* The loop over recipe.network.ports of _wait_for_ready, in declaration order.
RECURSIVE AddPorts(_, _, _, _)
AddPorts(endpoints, ports, i, node) ==
    IF i > Len(ports) THEN endpoints
    ELSE AddPorts(DictSet(endpoints, ports[i].name, EndpointUrl(node, ports[i].port)),
                  ports, i + 1, node)

BuildEndpoints(ports, node) ==
    AddPorts(("api" :> EndpointUrl(node, PrimaryPort(ports))), ports, 1, node)

(***************************************************************************)
(* Exceptions: str(e) of the errors the managers raise and catch.          *)
(***************************************************************************)
SlurmErrorStr(operation, reason) == "SLURM " \o operation \o " failed: " \o reason
ServiceStartErrorStr(recipe_name, reason) ==
    "Failed to start service '" \o recipe_name \o "': " \o reason
ServiceStopErrorStr(service_id, reason) ==
    "Failed to stop service '" \o service_id \o "': " \o reason
ClientRunErrorStr(run_id, reason) ==
    "Client run '" \o run_id \o "' failed: " \o reason

NoExc == [kind |-> None, reason |-> None]
Exc(kind, reason) == [kind |-> kind, reason |-> reason]

\* What a failing sbatch makes submit_job raise: the command's error or an
\* acknowledgement without a job id.
SubmitFailures ==
    { SlurmErrorStr("sbatch", "Command timed out after 30s"),
      SlurmErrorStr("submit", "Could not parse job ID from: ") }

(***************************************************************************)
(* ServiceRegistry and RunRegistry: each operation as a function of the    *)
(* stored map.                                                             *)
(***************************************************************************)
NewServiceInstance(ports, now) ==
    [ recipe |-> ports, status |-> PENDING, slurm_job_id |-> None, node |-> None,
      endpoints |-> EmptyMap, created_at |-> now, started_at |-> NoTime,
      stopped_at |-> NoTime, error_message |-> None ]

NewClientRun(now) ==
    [ status |-> SUBMITTED, slurm_job_id |-> None, results_path |-> None,
      created_at |-> now, started_at |-> NoTime, completed_at |-> NoTime,
      error_message |-> None ]

\* self._services[service.id] = service
Registry_register(reg, id, instance) ==
    [k \in DOMAIN reg \cup {id} |-> IF k = id THEN instance ELSE reg[k]]

ServiceRegistry_update_status(reg, id, status, error_message, now) ==
    IF id \notin DOMAIN reg THEN reg
    ELSE LET s1 == [reg[id] EXCEPT !.status = status]
             s2 == IF Truthy(error_message)
                   THEN [s1 EXCEPT !.error_message = error_message] ELSE s1
             s3 == IF status = RUNNING /\ s2.started_at = NoTime
                   THEN [s2 EXCEPT !.started_at = now]
                   ELSE IF status \in {STOPPED, ERROR}
                        THEN [s2 EXCEPT !.stopped_at = now] ELSE s2
         IN  [reg EXCEPT ![id] = s3]

RunRegistry_update_status(reg, id, status, error_message, now) ==
    IF id \notin DOMAIN reg THEN reg
    ELSE LET r1 == [reg[id] EXCEPT !.status = status]
             r2 == IF Truthy(error_message)
                   THEN [r1 EXCEPT !.error_message = error_message] ELSE r1
             r3 == IF status = RUNNING /\ r2.started_at = NoTime
                   THEN [r2 EXCEPT !.started_at = now]
                   ELSE IF status \in {COMPLETED, FAILED, CANCELED}
                        THEN [r2 EXCEPT !.completed_at = now] ELSE r2
         IN  [reg EXCEPT ![id] = r3]

ServiceRegistry_update_node(reg, id, node) ==
    IF id \notin DOMAIN reg THEN reg ELSE [reg EXCEPT ![id].node = node]

ServiceRegistry_update_endpoints(reg, id, endpoints) ==
    IF id \notin DOMAIN reg THEN reg ELSE [reg EXCEPT ![id].endpoints = endpoints]

\* ServiceRegistry.get_by_job_id: the record with that job id, if any
get_by_job_id(reg, job_id) == {k \in DOMAIN reg : reg[k].slurm_job_id = job_id}

\* The lookup that opens stop_service and get_service_status: by service id
\* first, then by SLURM job id; the empty set is ServiceNotFoundError.
Lookup(reg, arg) == IF arg \in DOMAIN reg THEN {arg} ELSE get_by_job_id(reg, arg)

(***************************************************************************)
(* Persistence: _persist_state writes model_dump(mode="json") of every     *)
(* record, _load_state builds the records again from the parsed file.      *)
(***************************************************************************)
\* The instants a datetime of the model can hold, in seconds.
SecondsPerHour == 3600
Times == 0 .. (MaxHours + MaxClock) * SecondsPerHour + MaxClock

TwoDigits(n) == IF n < 10 THEN "0" \o Digit(n) ELSE IntToStr(n)

\* datetime.isoformat() of the instant t seconds into the day the model runs in
isoformat(t) ==
    "2026-01-01T" \o TwoDigits(t \div SecondsPerHour) \o ":"
                  \o TwoDigits((t % SecondsPerHour) \div 60) \o ":"
                  \o TwoDigits(t % 60)

\* pydantic's reading of a datetime field from its ISO string
fromisoformat(str) == CHOOSE t \in Times : isoformat(t) = str

JsonNull == "null"
JsonTime(t) == IF t = NoTime THEN JsonNull ELSE isoformat(t)
ParseTime(j) == IF j = JsonNull THEN NoTime ELSE fromisoformat(j)
JsonOpt(v) == IF v = None THEN JsonNull ELSE v
ParseOpt(j) == IF j = JsonNull THEN None ELSE j

\* ServiceInstance.model_dump(mode="json") and ServiceInstance(**service_data)
ServiceInstance_dump(s) ==
    [s EXCEPT !.slurm_job_id = JsonOpt(@), !.node = JsonOpt(@),
              !.error_message = JsonOpt(@), !.created_at = JsonTime(@),
              !.started_at = JsonTime(@), !.stopped_at = JsonTime(@)]

ServiceInstance_load(d) ==
    [d EXCEPT !.slurm_job_id = ParseOpt(@), !.node = ParseOpt(@),
              !.error_message = ParseOpt(@), !.created_at = ParseTime(@),
              !.started_at = ParseTime(@), !.stopped_at = ParseTime(@)]

\* ClientRun.model_dump(mode="json") and ClientRun(**run_data)
ClientRun_dump(r) ==
    [r EXCEPT !.slurm_job_id = JsonOpt(@), !.results_path = JsonOpt(@),
              !.error_message = JsonOpt(@), !.created_at = JsonTime(@),
              !.started_at = JsonTime(@), !.completed_at = JsonTime(@)]

ClientRun_load(d) ==
    [d EXCEPT !.slurm_job_id = ParseOpt(@), !.results_path = ParseOpt(@),
              !.error_message = ParseOpt(@), !.created_at = ParseTime(@),
              !.started_at = ParseTime(@), !.completed_at = ParseTime(@)]

\* A faulty dump: one record only reaches the document.
ServiceRegistry_data_DropsOthers(reg) ==
    [id \in (IF reg = EmptyMap THEN {} ELSE {CHOOSE id \in DOMAIN reg : TRUE}) |->
        ServiceInstance_dump(reg[id])]

\* The document _persist_state dumps, and the map _load_state builds from it.
ServiceRegistry_data(reg) == [id \in DOMAIN reg |-> ServiceInstance_dump(reg[id])]
ServiceRegistry_load_state(data) == [id \in DOMAIN data |-> ServiceInstance_load(data[id])]
RunRegistry_data(reg) == [id \in DOMAIN reg |-> ClientRun_dump(reg[id])]
RunRegistry_load_state(data) == [id \in DOMAIN data |-> ClientRun_load(data[id])]

\* A registry call of the service registry: the map changes and the whole
\* map is written to the file (_persist_state), in the one locked step.
ServiceCall(reg) ==
    /\ services' = reg
    /\ service_file' = ServiceRegistry_data(reg)
    /\ store' = [store EXCEPT !.disk = "complete"]

\* A store to a field of the instance the manager holds: the registry's map
\* holds the same object, the file is not written.
ServiceStore(reg) ==
    /\ services' = reg
    /\ UNCHANGED <<service_file, store>>

RunCall(reg) ==
    /\ runs' = reg
    /\ run_file' = RunRegistry_data(reg)

RunStore(reg) ==
    /\ runs' = reg
    /\ UNCHANGED run_file

(***************************************************************************)
(* Initial state: empty registries, no call in progress.                   *)
(***************************************************************************)
\* elapsed is time.time() - start_time of the wait loop; only_pending tells
\* that the loop was entered and every answer so far was PENDING or UNKNOWN;
\* created lists the ids of the instances the start calls created, in order.
StarterIdle ==
    [ pc |-> "idle", wait_for_ready |-> FALSE, timeout |-> 0, elapsed |-> 0,
      job_status |-> None, node |-> None, e |-> None, exc |-> NoExc, queries |-> 0,
      only_pending |-> FALSE, created |-> << >> ]

StopperIdle ==
    [ pc |-> "idle", force |-> FALSE, marked |-> FALSE, cancelled |-> << >>,
      cancel |-> None, result |-> None, exc |-> NoExc ]

PollerIdle ==
    [ pc |-> "idle", slurm_status |-> None, run_status |-> None, queries |-> 0,
      exc |-> NoExc ]

\* No target resolved yet.  A resolution leaves what it was given (the
\* explicit target, the recipe's target dict, the endpoint file) and the
\* endpoint it returned.
NoTarget ==
    [ resolved |-> FALSE, target_service_id |-> [given |-> FALSE, text |-> << >>],
      recipe_target |-> EmptyMap,
      file |-> [exists |-> FALSE, readable |-> FALSE, content |-> << >>],
      file_endpoint |-> None, target_endpoint |-> None ]

RunnerIdle ==
    [ pc |-> "idle", wait_for_completion |-> FALSE, timeout |-> 0, elapsed |-> 0,
      e |-> None, exc |-> NoExc, queries |-> 0, target |-> NoTarget,
      created |-> << >> ]

\* The threads that call the registry where its calls are followed
\* statement by statement, and one thread's call: where it is, the
\* operation and its arguments, the document _persist_state built, what the
\* file held when the call came to write it, and what the call returned.
RegThreads == {"t1", "t2"}
NoOp == [name |-> None, id |-> None, arg |-> None]
CallIdle ==
    [ pc |-> "idle", op |-> NoOp, data |-> EmptyMap,
      before |-> [disk |-> "absent", file |-> EmptyMap], result |-> None ]

\* No registry call in progress, the lock free, no file at the path yet.
\* disk tells the bytes at the path: "absent", a "complete" document
\* (service_file), "empty" after open(path, "w"), or the "partial" output
\* of a json.dump that has not finished.
StoreIdle ==
    [ lock |-> None, disk |-> "absent", calls |-> [t \in RegThreads |-> CallIdle],
      history |-> << >>, entered |-> 0, restarts |-> 0 ]

\* No orchestrator call made yet.  A call leaves its name, the commands it
\* ran with what each did, the exception it raised and the value it returned.
NoCall ==
    [ op |-> None, commands |-> << >>,
      info |-> [found |-> FALSE, job_id |-> "", state |-> << >>, node |-> None],
      raised |-> NoExc, value |-> None ]

\* No call of the monitor manager yet.  A call leaves its name, the jobs it
\* asked the scheduler to cancel, the exception it raised and what it
\* returned.
NoMonitorCall == [op |-> None, cancelled |-> << >>, exc |-> NoExc, result |-> None]

Init ==
    /\ services = EmptyMap
    /\ service_file = EmptyMap
    /\ runs = EmptyMap
    /\ run_file = EmptyMap
    /\ clock = 0
    /\ starter = StarterIdle
    /\ stopper = StopperIdle
    /\ poller = PollerIdle
    /\ runner = RunnerIdle
    /\ slurm = [accepted |-> {}, call |-> NoCall]
    /\ store = StoreIdle
    /\ monitor_manager = [monitors |-> EmptyMap, call |-> NoMonitorCall]

ServerVars == <<services, service_file, store>>
ClientVars == <<runs, run_file>>

(***************************************************************************)
(* ServerManager.start_service and _wait_for_ready.                        *)
(***************************************************************************)
CheckInterval == 5

\* Lines 141-161: load the recipe, create the instance, register it.  The
\* caller's recipe and timeout are drawn from the sets given.
StartService_Load(portLists, timeouts) ==
    /\ starter.pc = "idle"
    /\ \E load \in {"ok", "not_found", "invalid"} :
         IF load = "ok"
         THEN \E w \in BOOLEAN, t \in timeouts, ports \in portLists :
                /\ ServiceCall(Registry_register(services, ServiceId,
                                                 NewServiceInstance(ports, clock)))
                /\ starter' = [starter EXCEPT !.pc = "registered",
                                              !.wait_for_ready = w, !.timeout = t]
         ELSE /\ starter' = [starter EXCEPT !.pc = "raised", !.exc =
                    IF load = "not_found"
                    THEN Exc("RecipeNotFoundError", RecipeName)
                    ELSE Exc("ServiceStartError", "Failed to load recipe: invalid")]
              /\ UNCHANGED ServerVars
    /\ UNCHANGED <<ClientVars, clock, stopper, poller, runner, slurm, monitor_manager>>

\* Lines 163-208: build the command and the batch script (which may raise),
\* then update_status(STARTING).
StartService_Prepare ==
    /\ starter.pc = "registered"
    /\ \E prepared \in BOOLEAN :
         IF prepared
         THEN /\ ServiceCall(ServiceRegistry_update_status(services, ServiceId,
                                                           STARTING, None, clock))
              /\ starter' = [starter EXCEPT !.pc = "submit"]
         ELSE /\ starter' = [starter EXCEPT !.pc = "failed",
                                            !.e = "cannot write batch script"]
              /\ UNCHANGED ServerVars
    /\ UNCHANGED <<ClientVars, clock, stopper, poller, runner, slurm, monitor_manager>>

\* A faulty submit: the job is accepted and its id is dropped.
StartService_Submit_DropsJobId ==
    /\ starter.pc = "submit"
    /\ \E answer \in {"accepted"} \cup SubmitFailures :
         IF answer = "accepted"
         THEN /\ slurm' = [slurm EXCEPT !.accepted = @ \cup {ServiceJob}]
              /\ starter' = [starter EXCEPT !.pc = "reregister"]
              /\ UNCHANGED ServerVars
         ELSE /\ starter' = [starter EXCEPT !.pc = "failed", !.e = answer]
              /\ UNCHANGED <<ServerVars, slurm>>
    /\ UNCHANGED <<ClientVars, clock, stopper, poller, runner, monitor_manager>>

\* Lines 209-216: submit_job; on success service.slurm_job_id = job_id, a
\* store to the registered object.
StartService_Submit ==
    /\ starter.pc = "submit"
    /\ \E answer \in {"accepted"} \cup SubmitFailures :
         IF answer = "accepted"
         THEN /\ slurm' = [slurm EXCEPT !.accepted = @ \cup {ServiceJob}]
              /\ ServiceStore([services EXCEPT ![ServiceId].slurm_job_id = ServiceJob])
              /\ starter' = [starter EXCEPT !.pc = "reregister"]
         ELSE /\ starter' = [starter EXCEPT !.pc = "failed", !.e = answer]
              /\ UNCHANGED <<ServerVars, slurm>>
    /\ UNCHANGED <<ClientVars, clock, stopper, poller, runner, monitor_manager>>

\* A faulty end of start_service: the wait loop is entered whatever
\* wait_for_ready is.
StartService_Reregister_AlwaysWaits ==
    /\ starter.pc = "reregister"
    /\ ServiceCall(Registry_register(services, ServiceId, services[ServiceId]))
    /\ starter' = [starter EXCEPT !.pc = "waiting", !.elapsed = 0,
                                  !.only_pending = TRUE]
    /\ UNCHANGED <<ClientVars, clock, stopper, poller, runner, slurm, monitor_manager>>

\* Lines 217-225: register(service) again; return unless wait_for_ready.
StartService_Reregister ==
    /\ starter.pc = "reregister"
    /\ ServiceCall(Registry_register(services, ServiceId, services[ServiceId]))
    /\ starter' = IF starter.wait_for_ready
                  THEN [starter EXCEPT !.pc = "waiting", !.elapsed = 0,
                                       !.only_pending = TRUE]
                  ELSE [starter EXCEPT !.pc = "returned"]
    /\ UNCHANGED <<ClientVars, clock, stopper, poller, runner, slurm, monitor_manager>>

\* A faulty loop turn: a STOPPED answer is taken for "not ready yet".
WaitForReady_Query_IgnoresStopped ==
    /\ starter.pc = "waiting"
    /\ starter.elapsed < starter.timeout
    /\ \E job_status \in JobStatusAnswers :
         LET asked == [starter EXCEPT !.job_status = job_status, !.queries = @ + 1,
                          !.only_pending = @ /\ job_status \in {PENDING, UNKNOWN}]
         IN  CASE job_status = RUNNING ->
                    /\ starter' = [asked EXCEPT !.pc = "node_query"]
                    /\ UNCHANGED ServerVars
               [] job_status = ERROR ->
                    /\ ServiceCall(ServiceRegistry_update_status(services, ServiceId,
                                          ERROR, "SLURM job failed", clock))
                    /\ starter' = [asked EXCEPT !.pc = "failed",
                                      !.e = ServiceStartErrorStr(RecipeName, "SLURM job failed")]
               [] OTHER ->
                    /\ starter' = [asked EXCEPT !.pc = "waiting",
                                                !.elapsed = @ + CheckInterval]
                    /\ UNCHANGED ServerVars
    /\ UNCHANGED <<ClientVars, clock, stopper, poller, runner, slurm, monitor_manager>>

\* Lines 276-280 and 306-318: one turn of the loop: get_job_status, then by
\* its answer the node query, the failure, or time.sleep(check_interval).
WaitForReady_Query ==
    /\ starter.pc = "waiting"
    /\ starter.elapsed < starter.timeout
    /\ \E job_status \in JobStatusAnswers :
         LET asked == [starter EXCEPT !.job_status = job_status, !.queries = @ + 1,
                          !.only_pending = @ /\ job_status \in {PENDING, UNKNOWN}]
         IN  CASE job_status = RUNNING ->
                    /\ starter' = [asked EXCEPT !.pc = "node_query"]
                    /\ UNCHANGED ServerVars
               [] job_status \in {ERROR, STOPPED} ->
                    LET error_msg == IF job_status = ERROR THEN "SLURM job failed"
                                     ELSE "SLURM job completed unexpectedly"
                    IN  /\ ServiceCall(ServiceRegistry_update_status(services, ServiceId,
                                                           ERROR, error_msg, clock))
                        /\ starter' = [asked EXCEPT !.pc = "failed",
                                          !.e = ServiceStartErrorStr(RecipeName, error_msg)]
               [] OTHER ->
                    /\ starter' = [asked EXCEPT !.pc = "waiting",
                                                !.elapsed = @ + CheckInterval]
                    /\ UNCHANGED ServerVars
    /\ UNCHANGED <<ClientVars, clock, stopper, poller, runner, slurm, monitor_manager>>

\* Lines 282-285 and 318: get_job_node; without a node the loop sleeps and
\* goes on, with one it stores the node.
WaitForReady_Node ==
    /\ starter.pc = "node_query"
    /\ \E node \in Nodes \cup {None} :
         IF node = None
         THEN /\ starter' = [starter EXCEPT !.pc = "waiting",
                                            !.elapsed = @ + CheckInterval]
              /\ UNCHANGED ServerVars
         ELSE /\ ServiceCall(ServiceRegistry_update_node(services, ServiceId, node))
              /\ starter' = [starter EXCEPT !.pc = "endpoints", !.node = node]
    /\ UNCHANGED <<ClientVars, clock, stopper, poller, runner, slurm, monitor_manager>>

\* Lines 288-295: build the endpoint map and update_endpoints.
WaitForReady_Endpoints ==
    /\ starter.pc = "endpoints"
    /\ ServiceCall(ServiceRegistry_update_endpoints(services, ServiceId,
              BuildEndpoints(services[ServiceId].recipe, starter.node)))
    /\ starter' = [starter EXCEPT !.pc = "running"]
    /\ UNCHANGED <<ClientVars, clock, stopper, poller, runner, slurm, monitor_manager>>

\* Line 296: update_status(RUNNING).
WaitForReady_Running ==
    /\ starter.pc = "running"
    /\ ServiceCall(ServiceRegistry_update_status(services, ServiceId, RUNNING, None, clock))
    /\ starter' = [starter EXCEPT !.pc = "ready"]
    /\ UNCHANGED <<ClientVars, clock, stopper, poller, runner, slurm, monitor_manager>>

\* Lines 299-304 and 225: the stores to the service object (status,
\* endpoints, started_at), then return True and return service.
WaitForReady_Return ==
    /\ starter.pc = "ready"
    /\ ServiceStore([services EXCEPT
          ![ServiceId].status = RUNNING,
          ![ServiceId].endpoints = BuildEndpoints(services[ServiceId].recipe, starter.node),
          ![ServiceId].started_at = clock])
    /\ starter' = [starter EXCEPT !.pc = "returned"]
    /\ UNCHANGED <<ClientVars, clock, stopper, poller, runner, slurm, monitor_manager>>

\* A faulty timeout: the loop ends and the call returns, nothing stored.
WaitForReady_Timeout_ReturnsQuietly ==
    /\ starter.pc = "waiting"
    /\ ~(starter.elapsed < starter.timeout)
    /\ starter' = [starter EXCEPT !.pc = "returned"]
    /\ UNCHANGED <<ServerVars, ClientVars, clock, stopper, poller, runner, slurm, monitor_manager>>

\* Lines 320-323: the loop condition fails: update_status(ERROR, ...), raise.
WaitForReady_Timeout ==
    /\ starter.pc = "waiting"
    /\ ~(starter.elapsed < starter.timeout)
    /\ LET error_msg == "Service did not become ready within "
                            \o IntToStr(starter.timeout) \o " seconds"
       IN  /\ ServiceCall(ServiceRegistry_update_status(services, ServiceId, ERROR,
                                                        error_msg, clock))
           /\ starter' = [starter EXCEPT !.pc = "failed",
                             !.e = ServiceStartErrorStr(RecipeName, error_msg)]
    /\ UNCHANGED <<ClientVars, clock, stopper, poller, runner, slurm, monitor_manager>>

\* A faulty handler: the error is raised and not recorded.
StartService_Fail_NoRecord ==
    /\ starter.pc = "failed"
    /\ starter' = [starter EXCEPT !.pc = "raised",
                                  !.exc = Exc("ServiceStartError", starter.e)]
    /\ UNCHANGED <<ServerVars, ClientVars, clock, stopper, poller, runner, slurm, monitor_manager>>

\* Lines 227-233: except Exception as e: update_status(ERROR, str(e)) and
\* raise ServiceStartError(recipe_name, str(e)).
StartService_Fail ==
    /\ starter.pc = "failed"
    /\ ServiceCall(ServiceRegistry_update_status(services, ServiceId, ERROR,
                                                 starter.e, clock))
    /\ starter' = [starter EXCEPT !.pc = "raised",
                                  !.exc = Exc("ServiceStartError", starter.e)]
    /\ UNCHANGED <<ClientVars, clock, stopper, poller, runner, slurm, monitor_manager>>

\* Every step of start_service after the load.
StartSteps ==
    \/ StartService_Prepare
    \/ StartService_Submit
    \/ StartService_Reregister
    \/ WaitForReady_Query
    \/ WaitForReady_Node
    \/ WaitForReady_Endpoints
    \/ WaitForReady_Running
    \/ WaitForReady_Return
    \/ WaitForReady_Timeout
    \/ StartService_Fail

(***************************************************************************)
(* ServerManager.stop_service.                                             *)
(***************************************************************************)
\* What the caller passes as service_id: the id, the job id, or neither.
LookupArgs == {ServiceId, ServiceJob, "unknown"}

Terminal == {STOPPED, ERROR}

\* A finished call leaves its outcome in the thread until the next call.
Free(thread) == thread.pc \in {"idle", "done"}

\* Lines 342-353: look the service up; already stopped or failed returns True.
StopService_Begin ==
    /\ Free(stopper)
    /\ \E service_id \in LookupArgs, force \in BOOLEAN :
         LET call == [StopperIdle EXCEPT !.force = force]
         IN  stopper' =
               IF Lookup(services, service_id) = {}
               THEN [call EXCEPT !.pc = "done",
                                 !.exc = Exc("ServiceNotFoundError", service_id)]
               ELSE IF services[ServiceId].status \in Terminal
                    THEN [call EXCEPT !.pc = "done", !.result = "True"]
                    ELSE [call EXCEPT !.pc = "mark"]
    /\ UNCHANGED <<ServerVars, ClientVars, clock, starter, poller, runner, slurm, monitor_manager>>

\* Line 357: update_status(STOPPING).
StopService_Mark ==
    /\ stopper.pc = "mark"
    /\ ServiceCall(ServiceRegistry_update_status(services, ServiceId, STOPPING, None, clock))
    /\ stopper' = [stopper EXCEPT !.pc = "cancel", !.marked = TRUE]
    /\ UNCHANGED <<ClientVars, clock, starter, poller, runner, slurm, monitor_manager>>

\* Lines 360-363 and 371-375: cancel_job when the service has a job id.  The
\* cancel succeeds, returns False or raises; a failure without force ends
\* the call with ServiceStopError(service.id, str(e)).
StopService_Cancel ==
    /\ stopper.pc = "cancel"
    /\ IF services[ServiceId].slurm_job_id # None
       THEN \E cancel \in {"ok", "false", "raise"} :
              LET e == IF cancel = "false"
                       THEN ServiceStopErrorStr(ServiceId, "Failed to cancel SLURM job")
                       ELSE "scancel: permission denied"
                  asked == [stopper EXCEPT !.cancel = cancel, !.cancelled =
                               Append(@, services[ServiceId].slurm_job_id)]
              IN  stopper' =
                    CASE cancel = "ok" -> [asked EXCEPT !.pc = "finish"]
                      [] cancel = "false" /\ stopper.force -> [asked EXCEPT !.pc = "finish"]
                      [] cancel = "raise" /\ stopper.force -> [asked EXCEPT !.pc = "forced"]
                      [] OTHER -> [asked EXCEPT !.pc = "done",
                                                !.exc = Exc("ServiceStopError", e)]
       ELSE stopper' = [stopper EXCEPT !.pc = "finish"]
    /\ UNCHANGED <<ServerVars, ClientVars, clock, starter, poller, runner, slurm, monitor_manager>>

\* A faulty end of stop_service: True is returned, STOPPED is not stored.
StopService_Finish_NoStore ==
    /\ stopper.pc = "finish"
    /\ stopper' = [stopper EXCEPT !.pc = "done", !.result = "True"]
    /\ UNCHANGED <<ServerVars, ClientVars, clock, starter, poller, runner, slurm, monitor_manager>>

\* Lines 366-369: update_status(STOPPED), return True.
StopService_Finish ==
    /\ stopper.pc = "finish"
    /\ ServiceCall(ServiceRegistry_update_status(services, ServiceId, STOPPED, None, clock))
    /\ stopper' = [stopper EXCEPT !.pc = "done", !.result = "True"]
    /\ UNCHANGED <<ClientVars, clock, starter, poller, runner, slurm, monitor_manager>>

\* A faulty handler: force is ignored, the failure is raised.
StopService_Forced_Reraises ==
    /\ stopper.pc = "forced"
    /\ stopper' = [stopper EXCEPT !.pc = "done",
                      !.exc = Exc("ServiceStopError", "scancel: permission denied")]
    /\ UNCHANGED <<ServerVars, ClientVars, clock, starter, poller, runner, slurm, monitor_manager>>

\* Lines 372-374: the handler under force: update_status(STOPPED), return True.
StopService_Forced ==
    /\ stopper.pc = "forced"
    /\ ServiceCall(ServiceRegistry_update_status(services, ServiceId, STOPPED, None, clock))
    /\ stopper' = [stopper EXCEPT !.pc = "done", !.result = "True"]
    /\ UNCHANGED <<ClientVars, clock, starter, poller, runner, slurm, monitor_manager>>

StopNext ==
    \/ StopService_Begin
    \/ StopService_Mark
    \/ StopService_Cancel
    \/ StopService_Finish
    \/ StopService_Forced

(***************************************************************************)
(* ServerManager.get_service_status.                                       *)
(***************************************************************************)
\* Lines 390-403: look the service up; reconcile only a service with a job
\* id whose status is neither STOPPED nor ERROR.
GetServiceStatus_Check ==
    /\ Free(poller)
    /\ \E service_id \in LookupArgs :
         poller' =
           IF Lookup(services, service_id) = {}
           THEN [PollerIdle EXCEPT !.pc = "done",
                                   !.exc = Exc("ServiceNotFoundError", service_id)]
           ELSE IF services[ServiceId].slurm_job_id # None
                   /\ services[ServiceId].status \notin Terminal
                THEN [PollerIdle EXCEPT !.pc = "query"]
                ELSE [PollerIdle EXCEPT !.pc = "done"]
    /\ UNCHANGED <<ServerVars, ClientVars, clock, starter, stopper, runner, slurm, monitor_manager>>

\* Lines 404-407: get_job_status; when it differs from service.status,
\* update_status(service.id, slurm_status).
GetServiceStatus_Reconcile ==
    /\ poller.pc = "query"
    /\ \E slurm_status \in JobStatusAnswers :
         LET asked == [poller EXCEPT !.slurm_status = slurm_status, !.queries = @ + 1]
         IN  IF slurm_status # services[ServiceId].status
             THEN /\ ServiceCall(ServiceRegistry_update_status(services, ServiceId,
                                                       slurm_status, None, clock))
                  /\ poller' = [asked EXCEPT !.pc = "store"]
             ELSE /\ poller' = [asked EXCEPT !.pc = "done"]
                  /\ UNCHANGED ServerVars
    /\ UNCHANGED <<ClientVars, clock, starter, stopper, runner, slurm, monitor_manager>>

\* Line 408: service.status = slurm_status, a store to the registered object.
GetServiceStatus_Store ==
    /\ poller.pc = "store"
    /\ ServiceStore([services EXCEPT ![ServiceId].status = poller.slurm_status])
    /\ poller' = [poller EXCEPT !.pc = IF poller.slurm_status = RUNNING
                                       THEN "node" ELSE "done"]
    /\ UNCHANGED <<ClientVars, clock, starter, stopper, runner, slurm, monitor_manager>>

\* Lines 411-415: a running job's node, stored when it is new.
GetServiceStatus_Node ==
    /\ poller.pc = "node"
    /\ \E node \in Nodes \cup {None} :
         IF node # None /\ node # services[ServiceId].node
         THEN ServiceCall(ServiceRegistry_update_node(services, ServiceId, node))
         ELSE UNCHANGED ServerVars
    /\ poller' = [poller EXCEPT !.pc = "done"]
    /\ UNCHANGED <<ClientVars, clock, starter, stopper, runner, slurm, monitor_manager>>

PollNext ==
    \/ GetServiceStatus_Check
    \/ GetServiceStatus_Reconcile
    \/ GetServiceStatus_Store
    \/ GetServiceStatus_Node

(***************************************************************************)
(* ClientManager.run_client and _wait_for_completion.                      *)
(***************************************************************************)
RunCheckInterval == 10
RunTimeouts == {0, MaxTimeout}
ResultsPath == "results/clients/run00001"

\* Lines 447-468: load the recipe, create the run, register it.
RunClient_Load ==
    /\ runner.pc = "idle"
    /\ \E load \in {"ok", "not_found", "invalid"} :
         IF load = "ok"
         THEN \E w \in BOOLEAN, t \in RunTimeouts :
                /\ RunCall(Registry_register(runs, RunId, NewClientRun(clock)))
                /\ runner' = [runner EXCEPT !.pc = "registered",
                                            !.wait_for_completion = w, !.timeout = t]
         ELSE /\ runner' = [runner EXCEPT !.pc = "raised", !.exc =
                    IF load = "not_found"
                    THEN Exc("RecipeNotFoundError", ClientRecipeName)
                    ELSE Exc("ClientRunError", "Failed to load recipe: invalid")]
              /\ UNCHANGED ClientVars
    /\ UNCHANGED <<ServerVars, clock, starter, stopper, poller, slurm, monitor_manager>>

\* Lines 470-499: resolve the target, write the scripts (which may raise),
\* then update_status(QUEUED).
RunClient_Prepare ==
    /\ runner.pc = "registered"
    /\ \E prepared \in BOOLEAN :
         IF prepared
         THEN /\ RunCall(RunRegistry_update_status(runs, RunId, QUEUED, None, clock))
              /\ runner' = [runner EXCEPT !.pc = "submit"]
         ELSE /\ runner' = [runner EXCEPT !.pc = "failed",
                                          !.e = "cannot write batch script"]
              /\ UNCHANGED ClientVars
    /\ UNCHANGED <<ServerVars, clock, starter, stopper, poller, slurm, monitor_manager>>

\* Lines 500-508: submit_job; on success run.slurm_job_id = job_id and
\* run.results_path, stores to the registered object.
RunClient_Submit ==
    /\ runner.pc = "submit"
    /\ \E answer \in {"accepted"} \cup SubmitFailures :
         IF answer = "accepted"
         THEN /\ slurm' = [slurm EXCEPT !.accepted = @ \cup {RunJob}]
              /\ RunStore([runs EXCEPT ![RunId].slurm_job_id = RunJob,
                                       ![RunId].results_path = ResultsPath])
              /\ runner' = [runner EXCEPT !.pc = "reregister"]
         ELSE /\ runner' = [runner EXCEPT !.pc = "failed", !.e = answer]
              /\ UNCHANGED <<ClientVars, slurm>>
    /\ UNCHANGED <<ServerVars, clock, starter, stopper, poller, monitor_manager>>

\* Lines 509-517: register(run) again; return unless wait_for_completion.
RunClient_Reregister ==
    /\ runner.pc = "reregister"
    /\ RunCall(Registry_register(runs, RunId, runs[RunId]))
    /\ runner' = IF runner.wait_for_completion
                 THEN [runner EXCEPT !.pc = "waiting", !.elapsed = 0]
                 ELSE [runner EXCEPT !.pc = "returned"]
    /\ UNCHANGED <<ServerVars, clock, starter, stopper, poller, slurm, monitor_manager>>

\* Lines 543-569: one turn of the loop.  A finished job completes the run
\* when its results file exists and fails it otherwise; either way
\* _wait_for_completion returns and run_client returns the run.
WaitForCompletion_Query ==
    /\ runner.pc = "waiting"
    /\ runner.elapsed < runner.timeout
    /\ \E slurm_status \in JobStatusAnswers, results_exist \in BOOLEAN :
         LET asked == [runner EXCEPT !.queries = @ + 1]
         IN
         CASE slurm_status = STOPPED ->
                /\ RunCall(IF results_exist
                           THEN RunRegistry_update_status(runs, RunId, COMPLETED, None, clock)
                           ELSE RunRegistry_update_status(runs, RunId, FAILED,
                                                          "No results generated", clock))
                /\ runner' = [asked EXCEPT !.pc = "returned"]
           [] slurm_status = ERROR ->
                /\ RunCall(RunRegistry_update_status(runs, RunId, FAILED,
                                                     "SLURM job failed", clock))
                /\ runner' = [asked EXCEPT !.pc = "returned"]
           [] slurm_status = RUNNING ->
                /\ RunCall(RunRegistry_update_status(runs, RunId, RUNNING, None, clock))
                /\ runner' = [asked EXCEPT !.elapsed = @ + RunCheckInterval]
           [] OTHER ->
                /\ runner' = [asked EXCEPT !.elapsed = @ + RunCheckInterval]
                /\ UNCHANGED ClientVars
    /\ UNCHANGED <<ServerVars, clock, starter, stopper, poller, slurm, monitor_manager>>

\* Lines 571-573: the loop condition fails: FAILED, return False.
WaitForCompletion_Timeout ==
    /\ runner.pc = "waiting"
    /\ ~(runner.elapsed < runner.timeout)
    /\ RunCall(RunRegistry_update_status(runs, RunId, FAILED,
                                         "Timeout waiting for completion", clock))
    /\ runner' = [runner EXCEPT !.pc = "returned"]
    /\ UNCHANGED <<ServerVars, clock, starter, stopper, poller, slurm, monitor_manager>>

\* Lines 519-521: except Exception as e: update_status(FAILED, str(e)) and
\* raise ClientRunError(recipe_name, str(e)).
RunClient_Fail ==
    /\ runner.pc = "failed"
    /\ RunCall(RunRegistry_update_status(runs, RunId, FAILED, runner.e, clock))
    /\ runner' = [runner EXCEPT !.pc = "raised",
                                !.exc = Exc("ClientRunError", runner.e)]
    /\ UNCHANGED <<ServerVars, clock, starter, stopper, poller, slurm, monitor_manager>>

RunNext ==
    \/ RunClient_Load
    \/ RunClient_Prepare
    \/ RunClient_Submit
    \/ RunClient_Reregister
    \/ WaitForCompletion_Query
    \/ WaitForCompletion_Timeout
    \/ RunClient_Fail

(***************************************************************************)
(* ClientManager.stop_run and get_run_status.  The thread that calls       *)
(* stop_service is the one that calls stop_run, and the thread that calls  *)
(* get_service_status the one that calls get_run_status.                   *)
(***************************************************************************)
RunLookupArgs == {RunId, "unknown"}

\* ClientRun.is_active
is_active(r) == r.status \in {SUBMITTED, QUEUED, RUNNING}

\* A faulty start of stop_run: a run that is not active is stopped again.
StopRun_Begin_NoCheck ==
    /\ Free(stopper)
    /\ \E run_id \in RunLookupArgs :
         stopper' =
           IF run_id \notin DOMAIN runs
           THEN [StopperIdle EXCEPT !.pc = "done",
                                    !.exc = Exc("ClientNotFoundError", run_id)]
           ELSE [StopperIdle EXCEPT !.pc = "run_cancel"]
    /\ UNCHANGED <<ServerVars, ClientVars, clock, starter, poller, runner, slurm, monitor_manager>>

\* Lines 587-594: registry.get(run_id); a run that is not active: return True.
StopRun_Begin ==
    /\ Free(stopper)
    /\ \E run_id \in RunLookupArgs :
         stopper' =
           IF run_id \notin DOMAIN runs
           THEN [StopperIdle EXCEPT !.pc = "done",
                                    !.exc = Exc("ClientNotFoundError", run_id)]
           ELSE IF ~is_active(runs[RunId])
                THEN [StopperIdle EXCEPT !.pc = "done", !.result = "True"]
                ELSE [StopperIdle EXCEPT !.pc = "run_cancel"]
    /\ UNCHANGED <<ServerVars, ClientVars, clock, starter, poller, runner, slurm, monitor_manager>>

\* Lines 597-598: cancel_job when the run has a job id; its result is not
\* looked at, an exception of it leaves stop_run.
StopRun_Cancel ==
    /\ stopper.pc = "run_cancel"
    /\ IF runs[RunId].slurm_job_id # None
       THEN \E cancel \in {"ok", "false", "raise"} :
              LET asked == [stopper EXCEPT !.cancel = cancel, !.cancelled =
                               Append(@, runs[RunId].slurm_job_id)]
              IN  stopper' =
                    IF cancel = "raise"
                    THEN [asked EXCEPT !.pc = "done",
                             !.exc = Exc("OSError", "scancel: permission denied")]
                    ELSE [asked EXCEPT !.pc = "run_finish"]
       ELSE stopper' = [stopper EXCEPT !.pc = "run_finish"]
    /\ UNCHANGED <<ServerVars, ClientVars, clock, starter, poller, runner, slurm, monitor_manager>>

\* Lines 600-602: update_status(CANCELED), return True.
StopRun_Finish ==
    /\ stopper.pc = "run_finish"
    /\ RunCall(RunRegistry_update_status(runs, RunId, CANCELED, None, clock))
    /\ stopper' = [stopper EXCEPT !.pc = "done", !.result = "True"]
    /\ UNCHANGED <<ServerVars, clock, starter, poller, runner, slurm, monitor_manager>>

StopRunNext ==
    \/ StopRun_Begin
    \/ StopRun_Cancel
    \/ StopRun_Finish

\* A faulty start of get_run_status: the scheduler is asked about every run
\* that has a job id.
GetRunStatus_Check_AlwaysAsks ==
    /\ Free(poller)
    /\ \E run_id \in RunLookupArgs :
         poller' =
           IF run_id \notin DOMAIN runs
           THEN [PollerIdle EXCEPT !.pc = "done",
                                   !.exc = Exc("ClientNotFoundError", run_id)]
           ELSE IF runs[RunId].slurm_job_id # None
                THEN [PollerIdle EXCEPT !.pc = "run_query"]
                ELSE [PollerIdle EXCEPT !.pc = "done"]
    /\ UNCHANGED <<ServerVars, ClientVars, clock, starter, stopper, runner, slurm, monitor_manager>>

\* Lines 606-609: registry.get(run_id); only an active run with a job id is
\* reconciled.
GetRunStatus_Check ==
    /\ Free(poller)
    /\ \E run_id \in RunLookupArgs :
         poller' =
           IF run_id \notin DOMAIN runs
           THEN [PollerIdle EXCEPT !.pc = "done",
                                   !.exc = Exc("ClientNotFoundError", run_id)]
           ELSE IF is_active(runs[RunId]) /\ runs[RunId].slurm_job_id # None
                THEN [PollerIdle EXCEPT !.pc = "run_query"]
                ELSE [PollerIdle EXCEPT !.pc = "done"]
    /\ UNCHANGED <<ServerVars, ClientVars, clock, starter, stopper, runner, slurm, monitor_manager>>

\* Lines 611-628: get_job_status, then update_status by the answer: RUNNING,
\* COMPLETED or FAILED by the results file of a finished job, FAILED.
GetRunStatus_Reconcile ==
    /\ poller.pc = "run_query"
    /\ \E slurm_status \in JobStatusAnswers, results_exist \in BOOLEAN :
         LET asked == [poller EXCEPT !.slurm_status = slurm_status, !.queries = @ + 1]
             status ==
               CASE slurm_status = RUNNING -> RUNNING
                 [] slurm_status = STOPPED /\ Truthy(runs[RunId].results_path) ->
                      IF results_exist THEN COMPLETED ELSE FAILED
                 [] slurm_status = ERROR -> FAILED
                 [] OTHER -> None
         IN  IF status # None
             THEN /\ RunCall(RunRegistry_update_status(runs, RunId, status, None, clock))
                  /\ poller' = [asked EXCEPT !.pc = "run_store", !.run_status = status]
             ELSE /\ poller' = [asked EXCEPT !.pc = "done"]
                  /\ UNCHANGED ClientVars
    /\ UNCHANGED <<ServerVars, clock, starter, stopper, runner, slurm, monitor_manager>>

\* Lines 614, 621, 624, 627: run.status = ..., a store to the registered
\* object; return run.
GetRunStatus_Store ==
    /\ poller.pc = "run_store"
    /\ RunStore([runs EXCEPT ![RunId].status = poller.run_status])
    /\ poller' = [poller EXCEPT !.pc = "done"]
    /\ UNCHANGED <<ServerVars, clock, starter, stopper, runner, slurm, monitor_manager>>

GetRunStatusNext ==
    \/ GetRunStatus_Check
    \/ GetRunStatus_Reconcile
    \/ GetRunStatus_Store

(***************************************************************************)
(* The server manager under an arbitrary scheduler of its three threads:   *)
(* start_service, stop_service and get_service_status on one instance.     *)
(***************************************************************************)
ConcurrentPortLists == { << [name |-> "api", port |-> 8080] >> }
ConcurrentTimeouts == {MaxTimeout}

Next ==
    \/ StartService_Load(ConcurrentPortLists, ConcurrentTimeouts)
    \/ StartSteps
    \/ StopNext
    \/ PollNext

Spec == Init /\ [][Next]_vars

(***************************************************************************)
(* One caller of the server manager: its calls one after another, each     *)
(* running to its end before the next begins.                              *)
(***************************************************************************)
InCall(thread) == thread.pc \notin {"idle", "done", "returned", "raised"}

SeqNext ==
    \/ /\ ~InCall(stopper) /\ ~InCall(poller)
       /\ (StartService_Load(PortLists, Timeouts) \/ StartSteps)
    \/ /\ ~InCall(starter) /\ ~InCall(poller)
       /\ StopNext
    \/ /\ ~InCall(starter) /\ ~InCall(stopper)
       /\ PollNext

\* The thread inside start_service keeps running until the call ends.
SpecSeq == Init /\ [][SeqNext]_vars /\ WF_vars(StartSteps)

(***************************************************************************)
(* One caller of both managers: start, stop and status calls on a service  *)
(* and on a run, one after another.                                        *)
(***************************************************************************)
NoWaitTimeouts == {0}

CallsNext ==
    \/ /\ ~InCall(stopper) /\ ~InCall(poller) /\ ~InCall(runner)
       /\ (StartService_Load(ConcurrentPortLists, NoWaitTimeouts) \/ StartSteps)
    \/ /\ ~InCall(stopper) /\ ~InCall(poller) /\ ~InCall(starter)
       /\ RunNext
    \/ /\ ~InCall(starter) /\ ~InCall(poller) /\ ~InCall(runner)
       /\ (StopNext \/ StopRunNext)
    \/ /\ ~InCall(starter) /\ ~InCall(stopper) /\ ~InCall(runner)
       /\ (PollNext \/ GetRunStatusNext)

SpecCalls == Init /\ [][CallsNext]_vars

(***************************************************************************)
(* Submission: start_service and run_client side by side, each on its own  *)
(* registry.                                                               *)
(***************************************************************************)
SubmitNext ==
    \/ StartService_Load(PortLists, Timeouts)
    \/ StartSteps
    \/ RunNext

SpecSubmit == Init /\ [][SubmitNext]_vars

(***************************************************************************)
(* The registries alone: any caller's register and update_status calls,    *)
(* with time passing between them.                                         *)
(***************************************************************************)
ErrorMessages == {None, "", "boom"}

ServiceRegistry_Register ==
    /\ ServiceId \notin DOMAIN services
    /\ \E status \in ServiceStatus :
         ServiceCall(Registry_register(services, ServiceId,
             [NewServiceInstance(<< >>, clock) EXCEPT !.status = status]))
    /\ UNCHANGED <<ClientVars, clock, starter, stopper, poller, runner, slurm, monitor_manager>>

ServiceRegistry_UpdateStatus ==
    /\ \E id \in {ServiceId, "unknown"}, status \in ServiceStatus,
          error_message \in ErrorMessages :
         ServiceCall(ServiceRegistry_update_status(services, id, status,
                                                   error_message, clock))
    /\ UNCHANGED <<ClientVars, clock, starter, stopper, poller, runner, slurm, monitor_manager>>

RunRegistry_Register ==
    /\ RunId \notin DOMAIN runs
    /\ \E status \in RunStatus :
         RunCall(Registry_register(runs, RunId,
             [NewClientRun(clock) EXCEPT !.status = status]))
    /\ UNCHANGED <<ServerVars, clock, starter, stopper, poller, runner, slurm, monitor_manager>>

RunRegistry_UpdateStatus ==
    /\ \E id \in {RunId, "unknown"}, status \in RunStatus,
          error_message \in ErrorMessages :
         RunCall(RunRegistry_update_status(runs, id, status, error_message, clock))
    /\ UNCHANGED <<ServerVars, clock, starter, stopper, poller, runner, slurm, monitor_manager>>

Tick ==
    /\ clock < MaxClock
    /\ clock' = clock + 1
    /\ UNCHANGED <<ServerVars, ClientVars, starter, stopper, poller, runner, slurm,
                   monitor_manager>>

RegNext ==
    \/ ServiceRegistry_Register
    \/ ServiceRegistry_UpdateStatus
    \/ RunRegistry_Register
    \/ RunRegistry_UpdateStatus
    \/ Tick

SpecReg == Init /\ [][RegNext]_vars

(***************************************************************************)
(* ServiceRegistry statement by statement: a call takes the lock, changes  *)
(* the map, and _persist_state builds the document, opens the file for     *)
(* writing (which empties it), writes and closes it; then the lock is      *)
(* released.  The process can die at any statement, and a registry is then *)
(* constructed on the same path.                                           *)
(***************************************************************************)
SecondId == "svc00002"
ServiceIds == {ServiceId, SecondId}

\* ServiceRegistry.unregister
ServiceRegistry_unregister(reg, id) ==
    [k \in DOMAIN reg \ {id} |-> reg[k]]

\* A faulty choice of the stale: an instance exactly max_age_hours old too.
stale_ids_AtBoundaryToo(reg, max_age_hours, now) ==
    {id \in DOMAIN reg :
        /\ reg[id].status \in {STOPPED, ERROR}
        /\ reg[id].stopped_at # NoTime
        /\ now - reg[id].stopped_at >= max_age_hours * SecondsPerHour}

\* The stale_ids of cleanup_stale: age = (now - stopped_at).total_seconds()
\* / 3600 is a float, so age > max_age_hours compares the seconds.
stale_ids(reg, max_age_hours, now) ==
    {id \in DOMAIN reg :
        /\ reg[id].status \in {STOPPED, ERROR}
        /\ reg[id].stopped_at # NoTime
        /\ now - reg[id].stopped_at > max_age_hours * SecondsPerHour}

\* ServiceRegistry.cleanup_stale: the map it leaves
ServiceRegistry_cleanup_stale(reg, max_age_hours, now) ==
    [k \in DOMAIN reg \ stale_ids(reg, max_age_hours, now) |-> reg[k]]

\* What a registry call makes of the map.
ApplyOp(reg, op, now) ==
    CASE op.name = "register" -> Registry_register(reg, op.id, op.arg)
      [] op.name = "unregister" -> ServiceRegistry_unregister(reg, op.id)
      [] op.name = "update_status" ->
           ServiceRegistry_update_status(reg, op.id, op.arg, None, now)
      [] op.name = "update_node" -> ServiceRegistry_update_node(reg, op.id, op.arg)
      [] op.name = "update_endpoints" ->
           ServiceRegistry_update_endpoints(reg, op.id, op.arg)
      [] op.name = "cleanup_stale" -> ServiceRegistry_cleanup_stale(reg, op.arg, now)

\* Whether the call reaches _persist_state: not for an id that is not in
\* the map, not for a cleanup that found nothing stale.
Persists(reg, op, now) ==
    CASE op.name = "register" -> TRUE
      [] op.name = "cleanup_stale" -> stale_ids(reg, op.arg, now) # {}
      [] OTHER -> op.id \in DOMAIN reg

\* What the call returns.
ResultOf(reg, op, now) ==
    CASE op.name = "register" -> "True"
      [] op.name = "cleanup_stale" -> IntToStr(Cardinality(stale_ids(reg, op.arg, now)))
      [] OTHER -> IF op.id \in DOMAIN reg THEN "True" ELSE "False"

\* A faulty entry: the call goes ahead without the lock.
Registry_Enter_NoLock(t, name, id, arg) ==
    /\ store.calls[t].pc = "idle"
    /\ store.entered < MaxCalls
    /\ store' = [store EXCEPT !.lock = t, !.entered = @ + 1,
                              !.calls[t].pc = "locked",
                              !.calls[t].op = [name |-> name, id |-> id, arg |-> arg]]
    /\ UNCHANGED <<services, service_file, ClientVars, clock,
                   starter, stopper, poller, runner, slurm, monitor_manager>>

\* with self._lock: the thread waits until the lock is free.
Registry_Enter(t, name, id, arg) ==
    /\ store.calls[t].pc = "idle"
    /\ store.entered < MaxCalls
    /\ store.lock = None
    /\ store' = [store EXCEPT !.lock = t, !.entered = @ + 1,
                              !.calls[t].pc = "locked",
                              !.calls[t].op = [name |-> name, id |-> id, arg |-> arg]]
    /\ UNCHANGED <<services, service_file, ClientVars, clock,
                   starter, stopper, poller, runner, slurm, monitor_manager>>

\* The instances a caller registers: a new one, and one already stopped.
RegisterArgs(now) ==
    { NewServiceInstance(<< >>, now),
      [NewServiceInstance(<< >>, now) EXCEPT !.status = STOPPED, !.stopped_at = now] }

Registry_Enter_register(t, ids) ==
    \E id \in ids, instance \in RegisterArgs(clock) :
       Registry_Enter(t, "register", id, instance)

Registry_Enter_unregister(t, ids) ==
    \E id \in ids : Registry_Enter(t, "unregister", id, None)

Registry_Enter_update_status(t, ids) ==
    \E id \in ids, status \in {RUNNING, ERROR} :
       Registry_Enter(t, "update_status", id, status)

Registry_Enter_update_node(t, ids) ==
    \E id \in ids : Registry_Enter(t, "update_node", id, "mel2091")

Registry_Enter_update_endpoints(t, ids) ==
    \E id \in ids :
       Registry_Enter(t, "update_endpoints", id, BuildEndpoints(<< >>, "mel2091"))

Registry_Enter_cleanup_stale(t) ==
    \E max_age_hours \in {0, 1} : Registry_Enter(t, "cleanup_stale", None, max_age_hours)

\* The body of the call up to _persist_state, or to its return.
Registry_Apply(t) ==
    LET call == store.calls[t]
    IN  /\ call.pc = "locked"
        /\ services' = ApplyOp(services, call.op, clock)
        /\ store' = [store EXCEPT
              !.history = Append(@, [op |-> call.op, now |-> clock, thread |-> t]),
              !.calls[t].result = ResultOf(services, call.op, clock),
              !.calls[t].pc = IF Persists(services, call.op, clock)
                              THEN "dump" ELSE "exit"]
        /\ UNCHANGED <<service_file, ClientVars, clock,
                       starter, stopper, poller, runner, slurm, monitor_manager>>

\* Lines 227-230: data = {service_id: service.model_dump(mode="json"), ...}
Persist_Dump(t) ==
    /\ store.calls[t].pc = "dump"
    /\ store' = [store EXCEPT
          !.calls[t].data = ServiceRegistry_data(services),
          !.calls[t].before = [disk |-> store.disk, file |-> service_file],
          !.calls[t].pc = "open"]
    /\ UNCHANGED <<services, service_file, ClientVars, clock,
                   starter, stopper, poller, runner, slurm, monitor_manager>>

\* Line 232: open(self._persistence_path, "w") truncates the file.
Persist_Open(t) ==
    /\ store.calls[t].pc = "open"
    /\ service_file' = EmptyMap
    /\ store' = [store EXCEPT !.disk = "empty", !.calls[t].pc = "write"]
    /\ UNCHANGED <<services, ClientVars, clock,
                   starter, stopper, poller, runner, slurm, monitor_manager>>

\* Line 233: json.dump writes the document piece by piece.
Persist_Write(t) ==
    /\ store.calls[t].pc = "write"
    /\ store' = [store EXCEPT !.disk = "partial", !.calls[t].pc = "close"]
    /\ UNCHANGED <<services, service_file, ClientVars, clock,
                   starter, stopper, poller, runner, slurm, monitor_manager>>

\* Line 233, end of the with block: the rest is written and the file closed.
Persist_Close(t) ==
    /\ store.calls[t].pc = "close"
    /\ service_file' = store.calls[t].data
    /\ store' = [store EXCEPT !.disk = "complete", !.calls[t].pc = "exit"]
    /\ UNCHANGED <<services, ClientVars, clock,
                   starter, stopper, poller, runner, slurm, monitor_manager>>

\* The end of the with self._lock block, and the return.
Registry_Exit(t) ==
    /\ store.calls[t].pc = "exit"
    /\ store' = [store EXCEPT !.lock = None, !.calls[t].pc = "idle"]
    /\ UNCHANGED <<services, service_file, ClientVars, clock,
                   starter, stopper, poller, runner, slurm, monitor_manager>>

\* Lines 35-48 and 237-254: the process ends, at any statement, and
\* ServiceRegistry(persistence_path) is constructed again: _load_state
\* reads the file if it exists; a file json.load cannot parse is logged and
\* leaves the registry empty.
MaxRestarts == 1

Registry_Restart ==
    /\ store.restarts < MaxRestarts
    /\ services' = IF store.disk = "complete"
                   THEN ServiceRegistry_load_state(service_file) ELSE EmptyMap
    /\ store' = [store EXCEPT
          !.lock = None, !.history = << >>, !.restarts = @ + 1,
          !.calls = [t \in RegThreads |-> CallIdle]]
    /\ UNCHANGED <<service_file, ClientVars, clock,
                   starter, stopper, poller, runner, slurm, monitor_manager>>

\* One hour passes.
TickHour ==
    /\ clock < MaxHours * SecondsPerHour
    /\ clock' = clock + SecondsPerHour
    /\ UNCHANGED <<ServerVars, ClientVars, starter, stopper, poller, runner, slurm,
                   monitor_manager>>

RegistryCall(t, ids) ==
    \/ Registry_Enter_register(t, ids)
    \/ Registry_Enter_unregister(t, ids)
    \/ Registry_Enter_update_status(t, ids)
    \/ Registry_Enter_update_node(t, ids)
    \/ Registry_Enter_update_endpoints(t, ids)
    \/ Registry_Enter_cleanup_stale(t)
    \/ Registry_Apply(t)
    \/ Persist_Dump(t)
    \/ Persist_Open(t)
    \/ Persist_Write(t)
    \/ Persist_Close(t)
    \/ Registry_Exit(t)

\* One thread's registry calls, the process dying and starting again.
FileNext ==
    \/ RegistryCall("t1", ServiceIds)
    \/ Registry_Restart

SpecFile == Init /\ [][FileNext]_vars

\* Two threads' registry calls on one registry, hours passing.
LockNext ==
    \/ \E t \in RegThreads : RegistryCall(t, {ServiceId})
    \/ TickHour

SpecLock == Init /\ [][LockNext]_vars

(***************************************************************************)
(* cleanup_stale among register calls, each call one locked step, with     *)
(* seconds and hours passing between the calls.                            *)
(***************************************************************************)
\* The instances registered here: new, stopped just now, and failed with no
\* stopped_at stamped.
CleanupRegisterArgs(now) ==
    RegisterArgs(now) \cup {[NewServiceInstance(<< >>, now) EXCEPT !.status = ERROR]}

Cleanup_Register ==
    /\ \E id \in ServiceIds, instance \in CleanupRegisterArgs(clock) :
         /\ id \notin DOMAIN services
         /\ ServiceCall(Registry_register(services, id, instance))
    /\ UNCHANGED <<ClientVars, clock, starter, stopper, poller, runner, slurm, monitor_manager>>

\* Lines 201-219: cleanup_stale(max_age_hours); _persist_state only when
\* something was removed; the count is returned.
Cleanup_CleanupStale ==
    /\ \E max_age_hours \in {0, 1} :
         LET op == [name |-> "cleanup_stale", id |-> None, arg |-> max_age_hours]
             reg == ApplyOp(services, op, clock)
         IN  /\ services' = reg
             /\ service_file' = IF Persists(services, op, clock)
                                THEN ServiceRegistry_data(reg) ELSE service_file
             /\ store' = [store EXCEPT
                   !.calls["t1"].op = op,
                   !.calls["t1"].result = ResultOf(services, op, clock)]
    /\ UNCHANGED <<ClientVars, clock, starter, stopper, poller, runner, slurm, monitor_manager>>

CleanupNext ==
    \/ Cleanup_Register
    \/ Cleanup_CleanupStale
    \/ Tick
    \/ TickHour

SpecCleanup == Init /\ [][CleanupNext]_vars

(***************************************************************************)
(* The caller of the server manager with time passing between the          *)
(* statements of its calls.                                                *)
(***************************************************************************)
TimedPortLists == { << >> }

TimedNext ==
    \/ /\ ~InCall(stopper) /\ ~InCall(poller)
       /\ (StartService_Load(TimedPortLists, ConcurrentTimeouts) \/ StartSteps)
    \/ /\ ~InCall(starter) /\ ~InCall(poller)
       /\ StopNext
    \/ /\ ~InCall(starter) /\ ~InCall(stopper)
       /\ PollNext
    \/ Tick

SpecTimed == Init /\ [][TimedNext]_vars

(***************************************************************************)
(* SlurmOrchestrator (core/slurm.py).  Text is the sequence of its         *)
(* characters, so that upper(), strip(), split() and the regular           *)
(* expression of submit_job are computed as Python computes them.          *)
(***************************************************************************)
LowerCase == << "a", "b", "c", "d", "e", "f", "g", "h", "i", "j", "k", "l", "m",
                "n", "o", "p", "q", "r", "s", "t", "u", "v", "w", "x", "y", "z" >>
UpperCase == << "A", "B", "C", "D", "E", "F", "G", "H", "I", "J", "K", "L", "M",
                "N", "O", "P", "Q", "R", "S", "T", "U", "V", "W", "X", "Y", "Z" >>
Digits == {"0", "1", "2", "3", "4", "5", "6", "7", "8", "9"}
Whitespace == {" ", "\n", "\t"}

\* The str whose characters are s.
RECURSIVE Text(_)
Text(s) == IF s = << >> THEN "" ELSE Head(s) \o Text(Tail(s))

\* A text that is kept as is: no case conversion.
same_case(s) == s

\* str.upper()
upper(s) ==
    [i \in DOMAIN s |->
        IF \E k \in 1..26 : LowerCase[k] = s[i]
        THEN UpperCase[CHOOSE k \in 1..26 : LowerCase[k] = s[i]]
        ELSE s[i]]

\* str.strip()
RECURSIVE lstrip(_)
lstrip(s) == IF s # << >> /\ Head(s) \in Whitespace THEN lstrip(Tail(s)) ELSE s

RECURSIVE rstrip(_)
rstrip(s) ==
    IF s # << >> /\ s[Len(s)] \in Whitespace
    THEN rstrip(SubSeq(s, 1, Len(s) - 1)) ELSE s

strip(s) == rstrip(lstrip(s))

\* str.split(sep) for a separator of one character.
RECURSIVE split(_, _)
split(s, sep) ==
    IF \E i \in DOMAIN s : s[i] = sep
    THEN LET i == CHOOSE i \in DOMAIN s :
                      s[i] = sep /\ \A j \in 1..(i - 1) : s[j] # sep
         IN  << SubSeq(s, 1, i - 1) >> \o split(SubSeq(s, i + 1, Len(s)), sep)
    ELSE << s >>

\* str.startswith(prefix)
startswith(s, prefix) ==
    Len(s) >= Len(prefix) /\ SubSeq(s, 1, Len(prefix)) = prefix

\* What subprocess.run did with a command: it exited with a return code and
\* its output, it ran into the timeout (TimeoutExpired), the command does
\* not exist (FileNotFoundError), or it could not be executed
\* (PermissionError).
Exited(returncode, stdout, stderr) ==
    [ kind |-> "exit", returncode |-> returncode, stdout |-> stdout,
      stderr |-> stderr ]
TimeoutExpired == [kind |-> "timeout", returncode |-> 0, stdout |-> << >>, stderr |-> ""]
FileNotFound == [kind |-> "missing", returncode |-> 0, stdout |-> << >>, stderr |-> ""]
PermissionDenied == [kind |-> "denied", returncode |-> 0, stdout |-> << >>, stderr |-> ""]

\* _run_command (lines 79-117): the CompletedProcess, or SlurmError for a
\* non-zero exit under check, a timeout and a missing command; any other
\* exception of subprocess.run passes through.
SlurmOrchestrator_run_command(cmd, out, check) ==
    CASE out.kind = "timeout" ->
           [ raised |-> Exc("SlurmError",
                            SlurmErrorStr(cmd, "Command timed out after 30s")),
             result |-> out ]
      [] out.kind = "missing" ->
           [ raised |-> Exc("SlurmError", SlurmErrorStr(cmd, "Command not found")),
             result |-> out ]
      [] out.kind = "denied" ->
           [raised |-> Exc("PermissionError", "Permission denied"), result |-> out]
      [] out.kind = "exit" /\ check /\ out.returncode # 0 ->
           [ raised |-> Exc("SlurmError", SlurmErrorStr(cmd,
                 IF out.stderr # "" THEN out.stderr
                 ELSE "Exit code " \o IntToStr(out.returncode))),
             result |-> out ]
      [] OTHER -> [raised |-> NoExc, result |-> out]

\* Optional[SlurmJobInfo]: None, or the fields of the job read from a line.
NoJobInfo == [found |-> FALSE, job_id |-> "", state |-> << >>, node |-> None]
SlurmJobInfo(parts) ==
    [ found |-> TRUE, job_id |-> Text(parts[1]), state |-> parts[3],
      node |-> IF parts[4] # << >> THEN Text(parts[4]) ELSE None ]

\* The loop of _get_completed_job_info over the lines of sacct's output:
\* the first line of six fields or more whose job id has no "." (a job
\* step has one).
RECURSIVE FirstJobLine(_, _)
FirstJobLine(lines, i) ==
    IF i > Len(lines) THEN NoJobInfo
    ELSE LET parts == split(lines[i], "|")
         IN  IF Len(parts) >= 6 /\ ~(\E k \in DOMAIN parts[1] : parts[1][k] = ".")
             THEN SlurmJobInfo(parts)
             ELSE FirstJobLine(lines, i + 1)

\* _get_completed_job_info (lines 314-345): every exception ends in None.
SlurmOrchestrator_get_completed_job_info(sacct) ==
    LET ran == SlurmOrchestrator_run_command("sacct", sacct, FALSE)
    IN  IF ran.raised # NoExc THEN NoJobInfo
        ELSE IF ran.result.returncode # 0 \/ strip(ran.result.stdout) = << >>
             THEN NoJobInfo
             ELSE FirstJobLine(split(strip(ran.result.stdout), "\n"), 1)

\* A faulty get_job_info: only SlurmError is caught.
SlurmOrchestrator_get_job_info_CatchesSlurmError(squeue, sacct) ==
    LET ran == SlurmOrchestrator_run_command("squeue", squeue, FALSE)
        asked == << [cmd |-> "squeue", out |-> squeue] >>
    IN  IF ran.raised # NoExc
        THEN [ raised |-> IF ran.raised.kind = "SlurmError" THEN NoExc ELSE ran.raised,
               info |-> NoJobInfo, commands |-> asked ]
        ELSE IF ran.result.returncode # 0 \/ strip(ran.result.stdout) = << >>
             THEN [ raised |-> NoExc,
                    info |-> SlurmOrchestrator_get_completed_job_info(sacct),
                    commands |-> Append(asked, [cmd |-> "sacct", out |-> sacct]) ]
             ELSE LET parts == split(strip(ran.result.stdout), "|")
                  IN  [ raised |-> NoExc,
                        info |-> IF Len(parts) >= 6 THEN SlurmJobInfo(parts)
                                 ELSE NoJobInfo,
                        commands |-> asked ]

\* get_job_info (lines 272-312): squeue first; sacct when squeue failed or
\* printed nothing; a line of fewer than six fields, and every exception,
\* ends in None.
SlurmOrchestrator_get_job_info(squeue, sacct) ==
    LET ran == SlurmOrchestrator_run_command("squeue", squeue, FALSE)
        asked == << [cmd |-> "squeue", out |-> squeue] >>
    IN  IF ran.raised # NoExc
        THEN [raised |-> NoExc, info |-> NoJobInfo, commands |-> asked]
        ELSE IF ran.result.returncode # 0 \/ strip(ran.result.stdout) = << >>
             THEN [ raised |-> NoExc,
                    info |-> SlurmOrchestrator_get_completed_job_info(sacct),
                    commands |-> Append(asked, [cmd |-> "sacct", out |-> sacct]) ]
             ELSE LET parts == split(strip(ran.result.stdout), "|")
                  IN  [ raised |-> NoExc,
                        info |-> IF Len(parts) >= 6 THEN SlurmJobInfo(parts)
                                 ELSE NoJobInfo,
                        commands |-> asked ]

\* Lines 362-376 of get_job_status: the state in upper case, looked up in
\* the lists of the if chain.
MapState(state) ==
    LET st == Text(upper(state))
    IN  CASE st \in {"RUNNING", "R"} -> RUNNING
          [] st \in {"PENDING", "PD", "CONFIGURING", "CF"} -> PENDING
          [] st \in {"COMPLETING", "CG"} -> STOPPING
          [] st \in {"COMPLETED", "CD"} -> STOPPED
          [] st \in {"FAILED", "F", "TIMEOUT", "TO", "CANCELLED", "CA",
                     "NODE_FAIL", "NF"} -> ERROR
          [] OTHER -> UNKNOWN

\* get_job_status (lines 347-376)
SlurmOrchestrator_get_job_status(squeue, sacct) ==
    LET got == SlurmOrchestrator_get_job_info(squeue, sacct)
    IN  [ op |-> "get_job_status", commands |-> got.commands, info |-> got.info,
          raised |-> got.raised,
          value |-> IF got.raised # NoExc THEN None
                    ELSE IF ~got.info.found THEN UNKNOWN
                    ELSE MapState(got.info.state) ]

\* get_job_node (lines 378-381)
SlurmOrchestrator_get_job_node(squeue, sacct) ==
    LET got == SlurmOrchestrator_get_job_info(squeue, sacct)
    IN  [ op |-> "get_job_node", commands |-> got.commands, info |-> got.info,
          raised |-> got.raised,
          value |-> IF got.raised = NoExc /\ got.info.found THEN got.info.node
                    ELSE None ]

\* cancel_job (lines 254-270): True when scancel exited with 0, False on
\* SlurmError; any other exception passes through.
SlurmOrchestrator_cancel_job(scancel) ==
    LET ran == SlurmOrchestrator_run_command("scancel", scancel, TRUE)
    IN  [ op |-> "cancel_job", commands |-> << [cmd |-> "scancel", out |-> scancel] >>,
          info |-> NoJobInfo,
          raised |-> IF ran.raised.kind = "SlurmError" THEN NoExc ELSE ran.raised,
          value |-> CASE ran.raised = NoExc -> "True"
                      [] ran.raised.kind = "SlurmError" -> "False"
                      [] OTHER -> None ]

\* re.search(r"Submitted batch job (\d+)", stdout): the digits after the
\* leftmost match, << >> without a match.
SubmittedBatchJob == << "S", "u", "b", "m", "i", "t", "t", "e", "d", " ", "b", "a", "t", "c", "h", " ", "j", "o", "b", " " >>

RECURSIVE DigitRun(_, _)
DigitRun(s, i) ==
    IF i <= Len(s) /\ s[i] \in Digits THEN << s[i] >> \o DigitRun(s, i + 1)
    ELSE << >>

search_job_id(stdout) ==
    LET n == Len(SubmittedBatchJob)
        starts == { i \in 1..Len(stdout) :
                      /\ i + n <= Len(stdout)
                      /\ SubSeq(stdout, i, i + n - 1) = SubmittedBatchJob
                      /\ stdout[i + n] \in Digits }
    IN  IF starts = {} THEN << >>
        ELSE DigitRun(stdout, n + CHOOSE i \in starts : \A j \in starts : i <= j)

\* submit_job (lines 210-252): write the script, run sbatch under check,
\* read the job id from its output.
SlurmOrchestrator_submit_job(written, sbatch) ==
    LET ran == SlurmOrchestrator_run_command("sbatch", sbatch, TRUE)
        asked == << [cmd |-> "sbatch", out |-> sbatch] >>
        job_id == search_job_id(ran.result.stdout)
        call == [ op |-> "submit_job", commands |-> asked, info |-> NoJobInfo,
                  raised |-> NoExc, value |-> None ]
    IN  IF ~written
        THEN [call EXCEPT !.commands = << >>,
                          !.raised = Exc("OSError", "cannot write the job script")]
        ELSE IF ran.raised # NoExc THEN [call EXCEPT !.raised = ran.raised]
        ELSE IF job_id = << >>
             THEN [call EXCEPT !.raised = Exc("SlurmError", SlurmErrorStr("submit",
                       "Could not parse job ID from: " \o Text(ran.result.stdout)))]
             ELSE [call EXCEPT !.value = Text(job_id)]

(***************************************************************************)
(* The orchestrator's operations, each on what its commands did, one call  *)
(* at a time.                                                              *)
(***************************************************************************)
\* The state names and codes of the if chain of get_job_status, and states
\* the scheduler also reports.
ListedStates ==
    { << "R", "U", "N", "N", "I", "N", "G" >>,
      << "R" >>,
      << "P", "E", "N", "D", "I", "N", "G" >>,
      << "P", "D" >>,
      << "C", "O", "N", "F", "I", "G", "U", "R", "I", "N", "G" >>,
      << "C", "F" >>,
      << "C", "O", "M", "P", "L", "E", "T", "I", "N", "G" >>,
      << "C", "G" >>,
      << "C", "O", "M", "P", "L", "E", "T", "E", "D" >>,
      << "C", "D" >>,
      << "F", "A", "I", "L", "E", "D" >>,
      << "F" >>,
      << "T", "I", "M", "E", "O", "U", "T" >>,
      << "T", "O" >>,
      << "C", "A", "N", "C", "E", "L", "L", "E", "D" >>,
      << "C", "A" >>,
      << "N", "O", "D", "E", "_", "F", "A", "I", "L" >>,
      << "N", "F" >> }
OtherStates ==
    { << "S", "U", "S", "P", "E", "N", "D", "E", "D" >>,
      << "P", "R", "E", "E", "M", "P", "T", "E", "D" >>,
      << "C", "A", "N", "C", "E", "L", "L", "E", "D", " ", "b", "y", " ", "1", "0", "0", "0" >>,
      << "O", "U", "T", "_", "O", "F", "_", "M", "E", "M", "O", "R", "Y" >>,
      << >> }

\* The letter cases a state arrives in: as listed, lower case, capitalised.
lower(s) ==
    [i \in DOMAIN s |->
        IF \E k \in 1..26 : UpperCase[k] = s[i]
        THEN LowerCase[CHOOSE k \in 1..26 : UpperCase[k] = s[i]]
        ELSE s[i]]
Capitalised(s) == IF s = << >> THEN s ELSE << Head(s) >> \o lower(Tail(s))
CaseVariants(s) == {s, lower(s), Capitalised(s)}
StateTexts == UNION { CaseVariants(st) : st \in ListedStates \cup OtherStates }

RECURSIVE Join(_, _)
Join(fields, sep) ==
    IF Len(fields) = 1 THEN fields[1]
    ELSE fields[1] \o << sep >> \o Join(Tail(fields), sep)

JobIdText == << "1", "0", "0", "1" >>
StepIdText == << "1", "0", "0", "1", ".", "b", "a", "t", "c", "h" >>
NodeTexts == { << >>, << "m", "e", "l", "2", "0", "9", "1" >> }

\* A line of squeue --noheader --format=%i|%j|%T|%N|%P|%M|%r
SqueueLine(state, node) ==
    Join(<< JobIdText, << "s", "r", "v" >>, state, node, << "g", "p", "u" >>, << "0", ":", "0", "1" >>, << "N", "o", "n", "e" >> >>, "|")
      \o << "\n" >>

\* A line of sacct --parsable2 --format=JobID,JobName,State,NodeList,Partition,Elapsed
SacctLine(job_id, state, node) ==
    Join(<< job_id, << "s", "r", "v" >>, state, node, << "g", "p", "u" >>, << "0", ":", "0", "1" >> >>, "|") \o << "\n" >>

Malformed == << "1", "0", "0", "1", "|", "s", "r", "v", "|", "R", "U", "N", "N", "I", "N", "G" >>
InvalidJobId == "scancel: error: Kill job error on job id 1001: Invalid job id specified"

SqueueOutcomes ==
    { TimeoutExpired, FileNotFound, PermissionDenied,
      Exited(1, << >>, "slurm_load_jobs error: Invalid job id specified"),
      Exited(1, SqueueLine(<< "R", "U", "N", "N", "I", "N", "G" >>, << >>), ""),
      Exited(0, << >>, ""), Exited(0, << "\n" >>, ""), Exited(0, Malformed, "") }
    \cup { Exited(0, SqueueLine(st, node), "") : st \in StateTexts, node \in NodeTexts }

SacctStates == { << "C", "O", "M", "P", "L", "E", "T", "E", "D" >>, << "f", "a", "i", "l", "e", "d" >>, << "C", "A", "N", "C", "E", "L", "L", "E", "D", " ", "b", "y", " ", "1", "0", "0", "0" >>, << "R", "U", "N", "N", "I", "N", "G" >> }
SacctOutcomes ==
    { TimeoutExpired, FileNotFound, PermissionDenied,
      Exited(1, << >>, "sacct: error: Problem talking to the database"),
      Exited(0, << >>, ""), Exited(0, Malformed, ""),
      Exited(0, SacctLine(StepIdText, << "C", "O", "M", "P", "L", "E", "T", "E", "D" >>, << "m", "e", "l", "2", "0", "9", "1" >>), "") }
    \cup { Exited(0, SacctLine(JobIdText, st, node), "") :
             st \in SacctStates, node \in NodeTexts }
    \cup { Exited(0, SacctLine(StepIdText, << "C", "O", "M", "P", "L", "E", "T", "E", "D" >>, << "m", "e", "l", "2", "0", "9", "1" >>)
                       \o SacctLine(JobIdText, st, << "m", "e", "l", "2", "0", "9", "1" >>), "") : st \in SacctStates }

ScancelOutcomes ==
    { TimeoutExpired, FileNotFound, PermissionDenied,
      Exited(0, << >>, ""), Exited(1, << >>, InvalidJobId), Exited(1, << >>, "") }

SbatchOutcomes ==
    { TimeoutExpired, FileNotFound, PermissionDenied,
      Exited(0, SubmittedBatchJob \o JobIdText \o << "\n" >>, ""),
      Exited(0, SubmittedBatchJob \o << "\n" >>, ""),
      Exited(0, << >>, ""),
      Exited(1, << >>, "sbatch: error: invalid partition specified"),
      Exited(1, SubmittedBatchJob \o JobIdText, "") }

Slurm_GetJobStatus ==
    /\ slurm.call.op = None
    /\ \E squeue \in SqueueOutcomes, sacct \in SacctOutcomes :
         slurm' = [slurm EXCEPT !.call = SlurmOrchestrator_get_job_status(squeue, sacct)]
    /\ UNCHANGED <<ServerVars, ClientVars, clock, starter, stopper, poller, runner,
                   monitor_manager>>

Slurm_GetJobNode ==
    /\ slurm.call.op = None
    /\ \E squeue \in SqueueOutcomes, sacct \in SacctOutcomes :
         slurm' = [slurm EXCEPT !.call = SlurmOrchestrator_get_job_node(squeue, sacct)]
    /\ UNCHANGED <<ServerVars, ClientVars, clock, starter, stopper, poller, runner,
                   monitor_manager>>

Slurm_CancelJob ==
    /\ slurm.call.op = None
    /\ \E scancel \in ScancelOutcomes :
         slurm' = [slurm EXCEPT !.call = SlurmOrchestrator_cancel_job(scancel)]
    /\ UNCHANGED <<ServerVars, ClientVars, clock, starter, stopper, poller, runner,
                   monitor_manager>>

Slurm_SubmitJob ==
    /\ slurm.call.op = None
    /\ \E written \in BOOLEAN, sbatch \in SbatchOutcomes :
         slurm' = [slurm EXCEPT !.call = SlurmOrchestrator_submit_job(written, sbatch)]
    /\ UNCHANGED <<ServerVars, ClientVars, clock, starter, stopper, poller, runner,
                   monitor_manager>>

\* The caller takes what the call returned or raised; the next call follows.
Slurm_Return ==
    /\ slurm.call.op # None
    /\ slurm' = [slurm EXCEPT !.call = NoCall]
    /\ UNCHANGED <<ServerVars, ClientVars, clock, starter, stopper, poller, runner,
                   monitor_manager>>

SlurmNext ==
    \/ Slurm_Return
    \/ Slurm_GetJobStatus
    \/ Slurm_GetJobNode
    \/ Slurm_CancelJob
    \/ Slurm_SubmitJob

SpecSlurm == Init /\ [][SlurmNext]_vars

(***************************************************************************)
(* ClientManager._resolve_target_endpoint, as run_client calls it, on the  *)
(* registry of services that start_service fills.                          *)
(***************************************************************************)
\* line.split("=", 1)[1] of a line that holds "="
after_first(line, sep) ==
    SubSeq(line, 1 + CHOOSE i \in DOMAIN line :
                         line[i] = sep /\ \A j \in 1..(i - 1) : line[j] # sep,
           Len(line))

\* Lines 138-140: the first line that starts with ENDPOINT=.
RECURSIVE EndpointLine(_, _)
EndpointLine(lines, i) ==
    IF i > Len(lines) THEN None
    ELSE IF startswith(lines[i], << "E", "N", "D", "P", "O", "I", "N", "T", "=" >>)
         THEN Text(strip(after_first(lines[i], "=")))
         ELSE EndpointLine(lines, i + 1)

\* A faulty resolution: the recipe's url is taken before the service named
\* by the explicit target is looked up.
ClientManager_resolve_target_endpoint_RecipeFirst(reg, recipe_target, target_service_id, file) ==
    LET text == target_service_id.text
        given == target_service_id.given /\ text # << >>
        id == Text(text)
    IN  IF given /\ (startswith(text, << "h", "t", "t", "p", ":", "/", "/" >>) \/ startswith(text, << "h", "t", "t", "p", "s", ":", "/", "/" >>))
        THEN id
        ELSE IF "url" \in DOMAIN recipe_target THEN recipe_target["url"]
        ELSE IF given /\ id \in DOMAIN reg /\ "api" \in DOMAIN reg[id].endpoints
                /\ Truthy(reg[id].endpoints["api"])
        THEN reg[id].endpoints["api"]
        ELSE IF "endpoint_file" \in DOMAIN recipe_target /\ file.exists
        THEN IF file.readable THEN EndpointLine(split(file.content, "\n"), 1)
             ELSE None
        ELSE None

\* _resolve_target_endpoint (lines 94-144)
ClientManager_resolve_target_endpoint(reg, recipe_target, target_service_id, file) ==
    LET text == target_service_id.text
        given == target_service_id.given /\ text # << >>
        id == Text(text)
    IN  IF given /\ (startswith(text, << "h", "t", "t", "p", ":", "/", "/" >>) \/ startswith(text, << "h", "t", "t", "p", "s", ":", "/", "/" >>))
        THEN id
        ELSE IF given /\ id \in DOMAIN reg /\ "api" \in DOMAIN reg[id].endpoints
                /\ Truthy(reg[id].endpoints["api"])
        THEN reg[id].endpoints["api"]
        ELSE IF "url" \in DOMAIN recipe_target THEN recipe_target["url"]
        ELSE IF "endpoint_file" \in DOMAIN recipe_target /\ file.exists
        THEN IF file.readable THEN EndpointLine(split(file.content, "\n"), 1)
             ELSE None
        ELSE None

\* The explicit targets a caller passes: none, the empty string, URLs, the
\* id of the service, its job id, an unknown id, and a URL in upper case.
\* literal tells which of them are http:// or https:// URLs.
TargetArgs ==
    { [given |-> FALSE, text |-> << >>, literal |-> FALSE],
      [given |-> TRUE, text |-> << >>, literal |-> FALSE],
      [given |-> TRUE, text |-> << "h", "t", "t", "p", ":", "/", "/", "h", ":", "1" >>, literal |-> TRUE],
      [given |-> TRUE, text |-> << "h", "t", "t", "p", "s", ":", "/", "/", "h" >>, literal |-> TRUE],
      [given |-> TRUE, text |-> << "H", "T", "T", "P", ":", "/", "/", "h" >>, literal |-> FALSE],
      [given |-> TRUE, text |-> << "s", "v", "c", "0", "0", "0", "0", "1" >>, literal |-> FALSE],
      [given |-> TRUE, text |-> << "1", "0", "0", "1" >>, literal |-> FALSE],
      [given |-> TRUE, text |-> << "u", "n", "k", "n", "o", "w", "n" >>, literal |-> FALSE] }

EndpointFilePath == "/tmp/inferbench/servers/svc00001_endpoint.txt"
RecipeTargets ==
    { EmptyMap,
      ("url" :> "http://localhost:8000"),
      ("url" :> ""),
      ("endpoint_file" :> EndpointFilePath),
      ("url" :> "http://localhost:8000") @@ ("endpoint_file" :> EndpointFilePath) }

\* The file at the recipe's endpoint_file path, each with the value of its
\* ENDPOINT= line: no file, a file that cannot be read, the file the
\* server's job writes, files without the line, with blanks around the
\* value, with "=" in the value, with two such lines, and an empty file.
TextFile(content) == [exists |-> TRUE, readable |-> TRUE, content |-> content]
EndpointFiles ==
    { [file |-> [exists |-> FALSE, readable |-> FALSE, content |-> << >>],
       endpoint |-> None],
      [file |-> [exists |-> TRUE, readable |-> FALSE, content |-> << >>],
       endpoint |-> None],
      [file |-> TextFile(<< "N", "O", "D", "E", "=", "n", "1", "\n", "P", "O", "R", "T", "=", "8", "0", "\n", "E", "N", "D", "P", "O", "I", "N", "T", "=", "h", "t", "t", "p", ":", "/", "/", "n", "1", ":", "8", "0", "\n" >>),
       endpoint |-> "http://n1:80"],
      [file |-> TextFile(<< "N", "O", "D", "E", "=", "n", "1", "\n", "P", "O", "R", "T", "=", "8", "0", "\n" >>), endpoint |-> None],
      [file |-> TextFile(<< " ", "E", "N", "D", "P", "O", "I", "N", "T", "=", "h", "t", "t", "p", ":", "/", "/", "n", "1", "\n" >>), endpoint |-> None],
      [file |-> TextFile(<< "E", "N", "D", "P", "O", "I", "N", "T", "=", " ", "h", "t", "t", "p", ":", "/", "/", "n", "1", "/", "?", "a", "=", "b", " ", "\n" >>),
       endpoint |-> "http://n1/?a=b"],
      [file |-> TextFile(<< "E", "N", "D", "P", "O", "I", "N", "T", "=", "h", "t", "t", "p", ":", "/", "/", "n", "1", "\n", "E", "N", "D", "P", "O", "I", "N", "T", "=", "h", "t", "t", "p", ":", "/", "/", "n", "2", "\n" >>),
       endpoint |-> "http://n1"],
      [file |-> TextFile(<< >>), endpoint |-> None] }

\* Line 476 of run_client: target_endpoint = _resolve_target_endpoint(...)
ResolveTargetEndpoint ==
    /\ ~runner.target.resolved
    /\ \E target_service_id \in TargetArgs, recipe_target \in RecipeTargets,
          at_path \in EndpointFiles :
         runner' = [runner EXCEPT !.target =
            [ resolved |-> TRUE,
              target_service_id |-> [given |-> target_service_id.given,
                                     text |-> target_service_id.text],
              recipe_target |-> recipe_target,
              file |-> at_path.file,
              file_endpoint |-> at_path.endpoint,
              target_endpoint |-> ClientManager_resolve_target_endpoint(services,
                  recipe_target, target_service_id, at_path.file) ]]
    /\ UNCHANGED <<ServerVars, ClientVars, clock, starter, stopper, poller, slurm, monitor_manager>>

TargetNext ==
    \/ StartService_Load(ConcurrentPortLists, ConcurrentTimeouts)
    \/ StartSteps
    \/ ResolveTargetEndpoint

SpecTarget == Init /\ [][TargetNext]_vars

(***************************************************************************)
(* MonitorManager (monitors/manager.py): start_monitor, stop_monitor and   *)
(* get_monitor_status of one caller, on one monitor instance.  The         *)
(* instances live in the manager's own dict, not in a registry.            *)
(***************************************************************************)
MonitorId == "mon00001"
MonitorJob == "1003"
MonitorRecipeName == "test-monitor"
MonitorLookupArgs == {MonitorId, "unknown"}

\* recipe.prometheus.get("port", 9090); 0 stands for no port declared.
DefaultPrometheusPort == 9090
PrometheusPorts == {0, 9191}
PrometheusPort(recipe) ==
    IF recipe.prometheus_port # 0 THEN recipe.prometheus_port
    ELSE DefaultPrometheusPort

NewMonitorInstance(recipe, now) ==
    [ recipe |-> recipe, status |-> PENDING, prometheus_job_id |-> None,
      grafana_job_id |-> None, prometheus_url |-> None, grafana_url |-> None,
      created_at |-> now ]

MonitorVars == <<services, service_file, store, runs, run_file, clock,
                 starter, stopper, poller, runner>>

\* start_monitor (lines 477-575): load the recipe, write the configuration
\* and the scripts, submit the Prometheus job; with wait_for_ready ask for
\* the job's node and build the URL; store the instance as RUNNING.  Any
\* failure after the load raises MonitorStartError and stores nothing.
MonitorManager_StartMonitor ==
    /\ MonitorId \notin DOMAIN monitor_manager.monitors
    /\ \E load \in {"ok", "invalid"}, prepared \in BOOLEAN,
          answer \in {"accepted"} \cup SubmitFailures, wait_for_ready \in BOOLEAN,
          node \in Nodes \cup {None}, port \in PrometheusPorts :
         LET call == [NoMonitorCall EXCEPT !.op = "start_monitor"]
             monitor == [NewMonitorInstance([prometheus_port |-> port], clock)
                            EXCEPT !.prometheus_job_id = MonitorJob]
             url == IF wait_for_ready /\ node # None
                    THEN EndpointUrl(node, PrometheusPort(monitor.recipe))
                    ELSE None
         IN  CASE load # "ok" ->
                    /\ monitor_manager' = [monitor_manager EXCEPT !.call =
                          [call EXCEPT !.exc = Exc("MonitorStartError",
                                                   "Failed to load recipe: invalid")]]
                    /\ UNCHANGED slurm
               [] load = "ok" /\ ~prepared ->
                    /\ monitor_manager' = [monitor_manager EXCEPT !.call =
                          [call EXCEPT !.exc = Exc("MonitorStartError",
                                                   "cannot write prometheus.yml")]]
                    /\ UNCHANGED slurm
               [] load = "ok" /\ prepared /\ answer # "accepted" ->
                    /\ monitor_manager' = [monitor_manager EXCEPT !.call =
                          [call EXCEPT !.exc = Exc("MonitorStartError", answer)]]
                    /\ UNCHANGED slurm
               [] OTHER ->
                    /\ slurm' = [slurm EXCEPT !.accepted = @ \cup {MonitorJob}]
                    /\ monitor_manager' =
                          [ monitors |-> Registry_register(monitor_manager.monitors,
                                MonitorId, [monitor EXCEPT !.prometheus_url = url,
                                                           !.status = RUNNING]),
                            call |-> [call EXCEPT !.result = MonitorId] ]
    /\ UNCHANGED MonitorVars

\* stop_monitor (lines 577-605): cancel the Prometheus job and the Grafana
\* job where the instance has one, whatever cancel_job returns; then
\* monitor.status = STOPPED, return True.  An exception of cancel_job ends
\* the call before the status is stored.
MonitorManager_StopMonitor ==
    /\ \E monitor_id \in MonitorLookupArgs, cancel \in {"ok", "false", "raise"} :
         LET call == [NoMonitorCall EXCEPT !.op = "stop_monitor"]
         IN  IF monitor_id \notin DOMAIN monitor_manager.monitors
             THEN monitor_manager' = [monitor_manager EXCEPT !.call =
                     [call EXCEPT !.exc = Exc("MonitorError",
                                              "Monitor " \o monitor_id \o " not found")]]
             ELSE LET monitor == monitor_manager.monitors[monitor_id]
                      asked == [call EXCEPT !.cancelled =
                                   IF monitor.prometheus_job_id # None
                                   THEN << monitor.prometheus_job_id >> ELSE << >>]
                  IN  IF monitor.prometheus_job_id # None /\ cancel = "raise"
                      THEN monitor_manager' = [monitor_manager EXCEPT !.call =
                              [asked EXCEPT !.exc = Exc("PermissionError",
                                                        "scancel: permission denied")]]
                      ELSE monitor_manager' =
                              [ monitors |-> [monitor_manager.monitors EXCEPT
                                                ![monitor_id].status = STOPPED],
                                call |-> [asked EXCEPT !.result = "True"] ]
    /\ UNCHANGED <<MonitorVars, slurm>>

\* get_monitor_status (lines 607-626): with a Prometheus job id,
\* monitor.status = get_job_status(...), whatever the status was; a running
\* job's node gives the URL when the instance has none.
MonitorManager_GetMonitorStatus ==
    /\ \E monitor_id \in MonitorLookupArgs, status \in JobStatusAnswers,
          node \in Nodes \cup {None} :
         LET call == [NoMonitorCall EXCEPT !.op = "get_monitor_status"]
         IN  IF monitor_id \notin DOMAIN monitor_manager.monitors
             THEN monitor_manager' = [monitor_manager EXCEPT !.call =
                     [call EXCEPT !.exc = Exc("MonitorError",
                                              "Monitor " \o monitor_id \o " not found")]]
             ELSE LET monitor == monitor_manager.monitors[monitor_id]
                      url == IF status = RUNNING /\ ~Truthy(monitor.prometheus_url)
                                /\ node # None
                             THEN EndpointUrl(node, PrometheusPort(monitor.recipe))
                             ELSE monitor.prometheus_url
                  IN  monitor_manager' =
                        [ monitors |->
                            IF monitor.prometheus_job_id # None
                            THEN [monitor_manager.monitors EXCEPT
                                    ![monitor_id].status = status,
                                    ![monitor_id].prometheus_url = url]
                            ELSE monitor_manager.monitors,
                          call |-> [call EXCEPT !.result = monitor_id] ]
    /\ UNCHANGED <<MonitorVars, slurm>>

MonitorNext ==
    \/ MonitorManager_StartMonitor
    \/ MonitorManager_StopMonitor
    \/ MonitorManager_GetMonitorStatus

SpecMonitor == Init /\ [][MonitorNext]_vars

(***************************************************************************)
(* The ids of new instances.  ServiceInstance.id and ClientRun.id default  *)
(* to str(uuid.uuid4())[:8]: eight hexadecimal digits of a random UUID,    *)
(* drawn without a look at the registry or at the ids drawn before.  Here  *)
(* start_service and run_client are each one step of a caller that does    *)
(* not wait, and the scheduler numbers the jobs it accepts.                *)
(***************************************************************************)
MaxStarts == 3        \* the start calls made where the ids are drawn

\* The values the default factory of ServiceInstance.id can return: two of
\* the 16^8.
ServiceInstance_id == ServiceIds

SecondRunId == "run00002"

\* The values the default factory of ClientRun.id can return.
ClientRun_id == {RunId, SecondRunId}

\* The job id sbatch prints for the next job it accepts.
NextJobId == IntToStr(1001 + Cardinality(slurm.accepted))

\* start_service(recipe_name, wait_for_ready=False) once the recipe is
\* loaded, as a function of the registry's map: the instance created is
\* registered under its id, and the call ends with the job id stored or
\* with the failure recorded.
ServerManager_start_service(reg, id, ports, prepared, answer, job_id, now) ==
    LET registered == Registry_register(reg, id, NewServiceInstance(ports, now))
        starting == ServiceRegistry_update_status(registered, id, STARTING, None, now)
    IN  IF ~prepared
        THEN ServiceRegistry_update_status(registered, id, ERROR,
                                           "cannot write batch script", now)
        ELSE IF answer # "accepted"
        THEN ServiceRegistry_update_status(starting, id, ERROR, answer, now)
        ELSE Registry_register(starting, id,
                               [starting[id] EXCEPT !.slurm_job_id = job_id])

\* run_client(recipe_name, wait_for_completion=False) once the recipe is
\* loaded, as a function of the run registry's map.
ClientManager_run_client(reg, id, prepared, answer, job_id, now) ==
    LET registered == Registry_register(reg, id, NewClientRun(now))
        queued == RunRegistry_update_status(registered, id, QUEUED, None, now)
    IN  IF ~prepared
        THEN RunRegistry_update_status(registered, id, FAILED,
                                       "cannot write batch script", now)
        ELSE IF answer # "accepted"
        THEN RunRegistry_update_status(queued, id, FAILED, answer, now)
        ELSE Registry_register(queued, id,
                 [queued[id] EXCEPT !.slurm_job_id = job_id,
                                    !.results_path = "results/clients/" \o id])

\* The start calls made so far, on either manager.
Starts == Len(starter.created) + Len(runner.created)

\* A whole start_service call: the factory draws the id of the instance.
Ids_StartService ==
    /\ Starts < MaxStarts
    /\ \E id \in ServiceInstance_id, ports \in ConcurrentPortLists,
          prepared \in BOOLEAN, answer \in {"accepted"} \cup SubmitFailures :
         LET failure == IF ~prepared THEN "cannot write batch script" ELSE answer
             submitted == prepared /\ answer = "accepted"
         IN  /\ ServiceCall(ServerManager_start_service(services, id, ports, prepared,
                                                        answer, NextJobId, clock))
             /\ slurm' = IF submitted
                         THEN [slurm EXCEPT !.accepted = @ \cup {NextJobId}]
                         ELSE slurm
             /\ starter' = [starter EXCEPT
                   !.created = Append(@, id),
                   !.pc = IF submitted THEN "returned" ELSE "raised",
                   !.exc = IF submitted THEN NoExc
                           ELSE Exc("ServiceStartError", failure)]
    /\ UNCHANGED <<ClientVars, clock, stopper, poller, runner, monitor_manager>>

\* A whole run_client call: the factory draws the id of the run.
Ids_RunClient ==
    /\ Starts < MaxStarts
    /\ \E id \in ClientRun_id, prepared \in BOOLEAN,
          answer \in {"accepted"} \cup SubmitFailures :
         LET failure == IF ~prepared THEN "cannot write batch script" ELSE answer
             submitted == prepared /\ answer = "accepted"
         IN  /\ RunCall(ClientManager_run_client(runs, id, prepared, answer,
                                                 NextJobId, clock))
             /\ slurm' = IF submitted
                         THEN [slurm EXCEPT !.accepted = @ \cup {NextJobId}]
                         ELSE slurm
             /\ runner' = [runner EXCEPT
                   !.created = Append(@, id),
                   !.pc = IF submitted THEN "returned" ELSE "raised",
                   !.exc = IF submitted THEN NoExc
                           ELSE Exc("ClientRunError", failure)]
    /\ UNCHANGED <<ServerVars, clock, starter, stopper, poller, monitor_manager>>

\* unregister(service_id) of a service that is registered.
Ids_Unregister ==
    /\ \E id \in DOMAIN services :
         ServiceCall(ServiceRegistry_unregister(services, id))
    /\ UNCHANGED <<ClientVars, clock, starter, stopper, poller, runner, slurm,
                   monitor_manager>>

IdsNext ==
    \/ Ids_StartService
    \/ Ids_RunClient
    \/ Ids_Unregister

SpecIds == Init /\ [][IdsNext]_vars

(***************************************************************************)
(* Claims.                                                                 *)
(***************************************************************************)
Registered == ServiceId \in DOMAIN services
service == services[ServiceId]
run == runs[RunId]

\* C1 (as claimed): under any interleaving of start_service, stop_service
\* and get_service_status, once the stored status of the instance is STOPPED
\* or ERROR no later step stores a non-terminal status for it.
C1_TerminalIsFinal ==
    [][(Registered /\ service.status \in Terminal)
          => services'[ServiceId].status \in Terminal]_vars

\* C2 (as claimed): no update_status call of either registry takes a record
\* from a terminal status (STOPPED, ERROR; COMPLETED, FAILED, CANCELED for
\* runs) to a non-terminal one.
RunTerminal == {COMPLETED, FAILED, CANCELED}

C2_UpdateStatusKeepsTerminal ==
    [][/\ \A id \in DOMAIN services :
             services[id].status \in Terminal => services'[id].status \in Terminal
       /\ \A id \in DOMAIN runs :
             runs[id].status \in RunTerminal => runs'[id].status \in RunTerminal]_vars

\* C3: once start_service (run_client) has returned or raised, a job the
\* scheduler accepted from it is named by the external job id of the
\* registry's record of that instance.
Ended(thread) == thread.pc \in {"returned", "raised"}

C4_StartEnds ==
    /\ (starter.pc = "waiting") ~> Ended(starter)
    /\ [][/\ (starter.wait_for_ready /\ starter.pc # "returned"
                 /\ starter'.pc = "returned")
             => services'[ServiceId].status = RUNNING
          /\ (starter.pc = "failed" /\ starter'.pc = "raised")
             => /\ starter'.exc.kind = "ServiceStartError"
                /\ services'[ServiceId].status = ERROR]_vars
    /\ [](starter.only_pending /\ Ended(starter)
             => /\ starter.pc = "raised"
                /\ starter.exc.kind = "ServiceStartError"
                /\ starter.elapsed >= starter.timeout
                /\ service.status = ERROR)

\* A job that stayed PENDING until the timeout of 10 s: two queries, then
\* ServiceStartError and ERROR.
C4_Witness ==
    /\ starter.pc = "raised" /\ starter.only_pending
    /\ starter.timeout = MaxTimeout /\ starter.queries >= 2
    /\ service.status = ERROR

\* C5 (as claimed): when the scheduler reported RUNNING and node n, at the
\* return of start_service the record has status RUNNING, node n,
\* endpoints['api'] = 'http://n:<primary port>' (8000 when the recipe
\* declares no port) and one entry per declared port.
C5_EndpointsAtReturn ==
    [][(starter.pc = "ready" /\ starter'.pc = "returned")
          => LET s == services'[ServiceId]
                 ports == s.recipe
             IN  /\ s.status = RUNNING
                 /\ s.node = starter.node
                 /\ "api" \in DOMAIN s.endpoints
                 /\ s.endpoints["api"] =
                       EndpointUrl(starter.node,
                           IF Len(ports) = 0 THEN 8000 ELSE ports[1].port)
                 /\ \A i \in 1..Len(ports) :
                       /\ ports[i].name \in DOMAIN s.endpoints
                       /\ s.endpoints[ports[i].name] =
                             EndpointUrl(starter.node, ports[i].port)]_vars

\* C6: a status query of the wait loop that answers ERROR or STOPPED is the
\* last one; the stored status is ERROR with a non-empty error message, and
\* start_service raises ServiceStartError.
C6_JobFailureEndsWait ==
    /\ [](starter.job_status \in {ERROR, STOPPED}
             => /\ starter.pc \in {"failed", "raised"}
                /\ service.status = ERROR
                /\ Truthy(service.error_message)
                /\ starter.pc = "raised" => starter.exc.kind = "ServiceStartError")
    /\ [][starter.job_status \in {ERROR, STOPPED}
             => starter'.queries = starter.queries]_vars
    /\ (starter.job_status \in {ERROR, STOPPED}) ~> (starter.pc = "raised")

\* The second query answered STOPPED: the call has raised, the record says
\* ERROR and why.
C6_Witness ==
    /\ starter.pc = "raised" /\ starter.job_status = STOPPED
    /\ starter.queries = 2
    /\ service.status = ERROR
    /\ service.error_message =
          "Failed to start service 'test-server': SLURM job completed unexpectedly"

\* C7: when the submission fails, start_service raises ServiceStartError
\* (run_client ClientRunError), the instance is still registered with
\* status ERROR (FAILED), its error message is the reason the raised error
\* carries, and its external job id is still None.
C7_SubmissionFailureRecorded ==
    /\ starter.e \in SubmitFailures
          => /\ starter.pc \in {"failed", "raised"}
             /\ starter.pc = "raised"
                  => /\ starter.exc.kind = "ServiceStartError"
                     /\ Registered
                     /\ service.status = ERROR
                     /\ service.error_message = starter.exc.reason
                     /\ service.slurm_job_id = None
    /\ runner.e \in SubmitFailures
          => /\ runner.pc \in {"failed", "raised"}
             /\ runner.pc = "raised"
                  => /\ runner.exc.kind = "ClientRunError"
                     /\ RunId \in DOMAIN runs
                     /\ run.status = FAILED
                     /\ run.error_message = runner.exc.reason
                     /\ run.slurm_job_id = None

\* Both submissions failed and both calls have raised.
C7_Witness ==
    /\ starter.pc = "raised" /\ starter.e \in SubmitFailures
    /\ service.status = ERROR
    /\ service.error_message = "SLURM sbatch failed: Command timed out after 30s"
    /\ runner.pc = "raised" /\ runner.e \in SubmitFailures
    /\ run.status = FAILED

\* C8 (as claimed): when stop_service(id, force=False) fails with
\* ServiceStopError because the cancellation failed, the instance is left
\* with status ERROR and the failure's message in error_message.
C8_StopFailureRecorded ==
    (stopper.pc = "done" /\ ~stopper.force /\ stopper.exc.kind = "ServiceStopError")
       => /\ service.status = ERROR
          /\ service.error_message = stopper.exc.reason

\* C9: a stop_service whose cancellation succeeds stored STOPPING before the
\* cancel, issued exactly one cancel, for the instance's job id, then
\* stored STOPPED and returned True.
C9_StopSequence ==
    stopper.cancel = "ok"
       => /\ stopper.marked
          /\ stopper.cancelled = << service.slurm_job_id >>
          /\ service.slurm_job_id # None
          /\ stopper.pc \in {"finish", "done"}
          /\ stopper.pc = "finish" => service.status = STOPPING
          /\ stopper.pc = "done"
               => /\ service.status = STOPPED
                  /\ stopper.result = "True"
                  /\ stopper.exc = NoExc

\* A running service, stopped without force: one cancel, STOPPED, True.
C9_Witness ==
    /\ stopper.pc = "done" /\ ~stopper.force /\ stopper.cancel = "ok"
    /\ stopper.cancelled = << ServiceJob >>
    /\ starter.pc = "returned" /\ starter.wait_for_ready
    /\ service.status = STOPPED /\ stopper.result = "True"

\* C10: stop_service(id, force=True) on a non-terminal instance returns True
\* and leaves the stored status STOPPED, whether the cancellation succeeds,
\* returns failure or raises.
C10_ForcedStop ==
    (stopper.force /\ stopper.marked)
       => /\ stopper.pc \in {"cancel", "finish", "forced", "done"}
          /\ stopper.pc = "done"
               => /\ stopper.result = "True"
                  /\ stopper.exc = NoExc
                  /\ service.status = STOPPED

\* The cancellation raised, and the forced stop still returned True.
C10_Witness ==
    /\ stopper.pc = "done" /\ stopper.force /\ stopper.cancel = "raise"
    /\ stopper.result = "True" /\ service.status = STOPPED

\* C11: stop_service on an instance whose stored status is STOPPED or ERROR,
\* and stop_run on a run that is not active, return True at once: no cancel
\* is sent to the scheduler, and neither the record nor the persisted file
\* changes.
C11_TerminalStopIsNoOp ==
    [][/\ (StopService_Begin /\ Registered /\ service.status \in Terminal
             /\ stopper'.exc = NoExc)
          => /\ stopper'.pc = "done" /\ stopper'.result = "True"
             /\ stopper'.cancelled = << >>
             /\ UNCHANGED <<services, service_file, slurm>>
       /\ (StopRun_Begin /\ RunId \in DOMAIN runs /\ ~is_active(run)
             /\ stopper'.exc = NoExc)
          => /\ stopper'.pc = "done" /\ stopper'.result = "True"
             /\ stopper'.cancelled = << >>
             /\ UNCHANGED <<runs, run_file, slurm>>]_vars

\* A service that failed after its job was accepted is stopped: True, no
\* cancel.
C11_Witness ==
    /\ Registered /\ service.status = ERROR /\ service.slurm_job_id = ServiceJob
    /\ RunId \notin DOMAIN runs
    /\ stopper.pc = "done" /\ stopper.result = "True" /\ stopper.exc = NoExc
    /\ stopper.cancelled = << >>

\* C12: get_service_status (get_run_status) on an instance whose stored
\* status is terminal asks the scheduler nothing and leaves the record, its
\* status and error message included, and the file as they are, each time
\* it is called.
C12_TerminalStatusIsStable ==
    [][/\ (GetServiceStatus_Check /\ Registered /\ service.status \in Terminal
             /\ poller'.exc = NoExc)
          => /\ poller'.pc = "done" /\ poller'.queries = 0
             /\ UNCHANGED <<services, service_file>>
       /\ (GetRunStatus_Check /\ RunId \in DOMAIN runs /\ run.status \in RunTerminal
             /\ poller'.exc = NoExc)
          => /\ poller'.pc = "done" /\ poller'.queries = 0
             /\ UNCHANGED <<runs, run_file>>]_vars

\* The status of a service that failed after its job was accepted has been
\* asked for: no query, the error and its message as recorded.
C12_Witness ==
    /\ Registered /\ service.status = ERROR /\ service.slurm_job_id = ServiceJob
    /\ Truthy(service.error_message)
    /\ RunId \notin DOMAIN runs
    /\ poller.pc = "done" /\ poller.exc = NoExc /\ poller.queries = 0

\* C13 (as claimed): the reconciliation of get_service_status moves the
\* stored status only forward along PENDING, STARTING, RUNNING, STOPPING,
\* STOPPED, or to ERROR, whatever the scheduler answers, and an UNKNOWN
\* answer leaves the stored status as it was.
Rank(status) ==
    CASE status = PENDING -> 1 [] status = STARTING -> 2 [] status = RUNNING -> 3
      [] status = STOPPING -> 4 [] status = STOPPED -> 5 [] OTHER -> 0

Forward(old, new) ==
    \/ new = old
    \/ new = ERROR
    \/ Rank(old) > 0 /\ Rank(new) > Rank(old)

C13_ReconcileOnlyForward ==
    [][(poller.pc = "query" /\ poller'.pc # "query")
          => /\ Forward(service.status, services'[ServiceId].status)
             /\ poller'.slurm_status = UNKNOWN
                  => services'[ServiceId].status = service.status]_vars

\* C14 (as claimed): in every reachable state of the registry, the states
\* between the registry updates of the wait-for-ready loop included, a
\* record with a node or with a non-empty endpoints map has status RUNNING,
\* STOPPING, STOPPED or ERROR.
RunningOrLater == {RUNNING, STOPPING, STOPPED, ERROR}

C14_NodeOnlyWhenRunning ==
    Registered
       => ((service.node # None \/ service.endpoints # EmptyMap)
              => service.status \in RunningOrLater)

\* C16 (as claimed): whenever no call is in progress, the snapshot in the
\* persistence file equals the in-memory registry on every record and every
\* field, after start_service, the wait-for-ready loop, stop_service and
\* get_service_status.
Quiescent == ~InCall(starter) /\ ~InCall(stopper) /\ ~InCall(poller)

C16_FileEqualsMemory ==
    Quiescent => ServiceRegistry_load_state(service_file) = services

\* C18 (as claimed): an update_status that applies the status the record
\* already has leaves started_at and stopped_at (completed_at for runs) as
\* the first application set them.
C18_SameStatusKeepsTimestamps ==
    [][/\ \A id \in DOMAIN services :
             services'[id].status = services[id].status
                => /\ services'[id].started_at = services[id].started_at
                   /\ services'[id].stopped_at = services[id].stopped_at
       /\ \A id \in DOMAIN runs :
             runs'[id].status = runs[id].status
                => /\ runs'[id].started_at = runs[id].started_at
                   /\ runs'[id].completed_at = runs[id].completed_at]_vars

\* C15 (as claimed): the persisted file is replaced atomically.  At every
\* point the file is a complete document (or is not there yet), and a
\* registry constructed after the process died inside a persistence write
\* holds the snapshot the file had before the write or the one being
\* written.
LoadOf(disk, file) ==
    IF disk = "complete" THEN ServiceRegistry_load_state(file) ELSE EmptyMap

C15_AtomicReplace ==
    /\ [](store.disk \in {"absent", "complete"})
    /\ [][Registry_Restart
             => \A t \in RegThreads :
                   store.calls[t].pc \in {"open", "write", "close"}
                      => services' \in
                            { LoadOf(store.calls[t].before.disk, store.calls[t].before.file),
                              ServiceRegistry_load_state(store.calls[t].data) }]_vars

\* C17: a registry constructed on the path of a registry whose calls have
\* all returned holds exactly the instances of that registry, each equal on
\* every field; an instance registered first is still there after a second
\* one was registered.
AllIdle == \A t \in RegThreads : store.calls[t].pc = "idle"

C17_ReloadEqualsRegistered ==
    [][(Registry_Restart /\ AllIdle) => services' = services]_vars

\* Two instances were registered, the second one stopped; the registry
\* constructed afterwards holds both, timestamps included.
C17_Witness ==
    /\ store.restarts = 1 /\ AllIdle /\ store.history = << >>
    /\ store.disk = "complete"
    /\ DOMAIN services = ServiceIds
    /\ services[ServiceId].status = PENDING
    /\ services[SecondId].status = STOPPED /\ services[SecondId].stopped_at = 0

\* C19: cleanup_stale(max_age_hours) removes exactly the instances in a
\* terminal status whose stopped_at is more than max_age_hours before now,
\* and returns their number; an instance exactly max_age_hours old, a
\* younger one and every instance that is not terminal stay.
StrictlyOlder(s, max_age_hours, now) ==
    /\ s.status \in Terminal
    /\ s.stopped_at # NoTime
    /\ s.stopped_at + max_age_hours * SecondsPerHour < now

C19_CleanupRemovesExactlyStale ==
    [][Cleanup_CleanupStale
          => LET max_age_hours == store'.calls["t1"].op.arg
                 removed == {id \in DOMAIN services :
                               StrictlyOlder(services[id], max_age_hours, clock)}
             IN  /\ DOMAIN services' = DOMAIN services \ removed
                 /\ \A id \in DOMAIN services' : services'[id] = services[id]
                 /\ store'.calls["t1"].result = IntToStr(Cardinality(removed))]_vars

\* cleanup_stale(1) two hours after the first instance stopped and one hour
\* after the second did: one removed, the one at the boundary kept.
C19_Witness ==
    /\ store.calls["t1"].op.name = "cleanup_stale"
    /\ store.calls["t1"].op.arg = 1
    /\ store.calls["t1"].result = "1"
    /\ DOMAIN services = {SecondId}
    /\ services[SecondId].status = STOPPED
    /\ clock - services[SecondId].stopped_at = SecondsPerHour

\* C20: the registry's calls are linearized by its lock.  When the calls of
\* all threads have returned, the map is what the calls give when run one
\* after another in the order they took the lock, and the file is the
\* document of that map, written by the last call of that order that
\* writes.
RECURSIVE Replay(_, _)
Replay(history, n) ==
    IF n = 0 THEN EmptyMap
    ELSE ApplyOp(Replay(history, n - 1), history[n].op, history[n].now)

Sequential == Replay(store.history, Len(store.history))

C20_Linearized ==
    AllIdle
       => /\ services = Sequential
          /\ store.disk \in {"absent", "complete"}
          /\ store.disk = "complete" => service_file = ServiceRegistry_data(Sequential)
          /\ store.disk = "absent" => Sequential = EmptyMap

\* Two threads called the registry: one registered the instance, the other
\* set it to ERROR; the file holds the ERROR.
C20_Witness ==
    /\ AllIdle /\ Len(store.history) = 2
    /\ store.history[1].thread # store.history[2].thread
    /\ store.history[2].op.name = "update_status"
    /\ store.disk = "complete"
    /\ ServiceId \in DOMAIN service_file
    /\ service_file[ServiceId].status = ERROR

\* What the orchestrator call made last ran, and what a command it ran did.
Ran(cmd) == \E i \in DOMAIN slurm.call.commands : slurm.call.commands[i].cmd = cmd
OutcomeOf(cmd) ==
    slurm.call.commands[CHOOSE i \in DOMAIN slurm.call.commands :
                            slurm.call.commands[i].cmd = cmd].out

\* The command ran to its end and printed something: the view has an entry.
HasEntry(out) == out.kind = "exit" /\ out.returncode = 0 /\ strip(out.stdout) # << >>

\* The view yields the job: among the lines printed there is one of the job
\* itself (not of a step of it) with the six fields asked for.
YieldsJob(out) ==
    /\ HasEntry(out)
    /\ \E line \in { split(strip(out.stdout), "\n")[i] :
                       i \in DOMAIN split(strip(out.stdout), "\n") } :
         /\ Len(split(line, "|")) >= 6
         /\ split(line, "|")[1] = JobIdText

\* C21: get_job_status never raises, whatever squeue and sacct do (non-zero
\* exit, timeout, missing command, empty or malformed output): it returns
\* one of the six statuses; sacct is run only when squeue has no entry for
\* the job; and the status is UNKNOWN when neither squeue nor sacct yields
\* the job.
C21_GetJobStatusNeverRaises ==
    slurm.call.op = "get_job_status" =>
      /\ slurm.call.raised = NoExc
      /\ slurm.call.value \in JobStatusAnswers
      /\ Ran("squeue")
      /\ Ran("sacct") => ~HasEntry(OutcomeOf("squeue"))
      /\ (~YieldsJob(OutcomeOf("squeue"))
            /\ (Ran("sacct") => ~YieldsJob(OutcomeOf("sacct"))))
           => slurm.call.value = UNKNOWN

\* squeue could not be executed, sacct was not asked, the answer is UNKNOWN.
C21_Witness ==
    /\ slurm.call.op = "get_job_status"
    /\ OutcomeOf("squeue").kind = "denied"
    /\ ~Ran("sacct")
    /\ slurm.call.value = UNKNOWN

\* C22 (as claimed): an orchestrator operation whose scheduler command ran
\* into the timeout or does not exist ends with SlurmError, never with a
\* status, a node value or a boolean.
C22_OutageIsAnError ==
    (\E i \in DOMAIN slurm.call.commands :
        slurm.call.commands[i].out.kind \in {"timeout", "missing"})
      => slurm.call.raised.kind = "SlurmError"

\* The status the claim's table gives a state, in any of the letter cases.
Among(state, listed) == \E st \in listed : state \in CaseVariants(st)
ExpectedStatus(state) ==
    CASE Among(state, { << "R", "U", "N", "N", "I", "N", "G" >>, << "R" >> }) -> RUNNING
      [] Among(state, { << "P", "E", "N", "D", "I", "N", "G" >>, << "P", "D" >>, << "C", "O", "N", "F", "I", "G", "U", "R", "I", "N", "G" >>, << "C", "F" >> }) -> PENDING
      [] Among(state, { << "C", "O", "M", "P", "L", "E", "T", "I", "N", "G" >>, << "C", "G" >> }) -> STOPPING
      [] Among(state, { << "C", "O", "M", "P", "L", "E", "T", "E", "D" >>, << "C", "D" >> }) -> STOPPED
      [] Among(state, { << "F", "A", "I", "L", "E", "D" >>, << "F" >>, << "T", "I", "M", "E", "O", "U", "T" >>, << "T", "O" >>, << "C", "A", "N", "C", "E", "L", "L", "E", "D" >>, << "C", "A" >>, << "N", "O", "D", "E", "_", "F", "A", "I", "L" >>, << "N", "F" >> }) -> ERROR
      [] OTHER -> UNKNOWN

\* C23: the state mapping of get_job_status is total: for every state the
\* scheduler reports, in any letter case, the answer is the status of the
\* table (RUNNING/R to RUNNING; PENDING/PD/CONFIGURING/CF to PENDING;
\* COMPLETING/CG to STOPPING; COMPLETED/CD to STOPPED; FAILED/F/TIMEOUT/TO/
\* CANCELLED/CA/NODE_FAIL/NF to ERROR), every other state gives UNKNOWN, and
\* nothing is raised.
C23_StateMappingIsTotal ==
    (slurm.call.op = "get_job_status" /\ slurm.call.info.found) =>
      /\ slurm.call.raised = NoExc
      /\ slurm.call.value = ExpectedStatus(slurm.call.info.state)

\* A state in lower case is mapped, and a state outside the table is too.
C23_Witness ==
    /\ slurm.call.op = "get_job_status"
    /\ slurm.call.info.found
    /\ \/ slurm.call.info.state = << "n", "o", "d", "e", "_", "f", "a", "i", "l" >> /\ slurm.call.value = ERROR
       \/ slurm.call.info.state = << "C", "g" >> /\ slurm.call.value = STOPPING

\* C24 (as claimed): cancel_job returns True when scancel reports that the
\* job no longer exists.
C24_GoneJobIsCancelled ==
    (slurm.call.op = "cancel_job"
       /\ OutcomeOf("scancel") = Exited(1, << >>, InvalidJobId))
      => slurm.call.value = "True"

\* C25 (as claimed): start_service(wait_for_ready=False) and
\* run_client(wait_for_completion=False) return, after a successful
\* submission, without a status query, with the job id set and with status
\* QUEUED.
C25_NoWaitReturnsQueued ==
    /\ (starter.pc = "returned" /\ ~starter.wait_for_ready) =>
         /\ starter.queries = 0
         /\ services[ServiceId].slurm_job_id = ServiceJob
         /\ services[ServiceId].status = QUEUED
    /\ (runner.pc = "returned" /\ ~runner.wait_for_completion) =>
         /\ runner.queries = 0
         /\ runs[RunId].slurm_job_id = RunJob
         /\ runs[RunId].status = QUEUED

\* C25 (amended): they return without a status query, with the job id set
\* and with the status each kind of instance has between submission and
\* running: STARTING for a service, QUEUED for a client run.
C25_NoWaitReturnsSubmitted ==
    /\ (starter.pc = "returned" /\ ~starter.wait_for_ready) =>
         /\ starter.queries = 0
         /\ services[ServiceId].slurm_job_id = ServiceJob
         /\ services[ServiceId].status = STARTING
         /\ ServiceJob \in slurm.accepted
    /\ (runner.pc = "returned" /\ ~runner.wait_for_completion) =>
         /\ runner.queries = 0
         /\ runs[RunId].slurm_job_id = RunJob
         /\ runs[RunId].status = QUEUED
         /\ RunJob \in slurm.accepted

\* Both calls have returned without waiting.
C25_Witness ==
    /\ starter.pc = "returned" /\ ~starter.wait_for_ready
    /\ runner.pc = "returned" /\ ~runner.wait_for_completion

\* What a resolution was given: the explicit target as a string, whether
\* it is a literal URL, and whether it is the id of a service of the
\* registry that has an 'api' endpoint.
GivenTarget(t) == Text(t.target_service_id.text)
GivenLiteral(t) ==
    \E a \in TargetArgs :
       /\ a.literal
       /\ a.given = t.target_service_id.given
       /\ a.text = t.target_service_id.text
NamesService(t, reg) ==
    /\ t.target_service_id.given
    /\ GivenTarget(t) \in DOMAIN reg
    /\ "api" \in DOMAIN reg[GivenTarget(t)].endpoints

\* The target the precedence of the claim gives.
TargetByPrecedence(t, reg) ==
    IF GivenLiteral(t) THEN GivenTarget(t)
    ELSE IF NamesService(t, reg) THEN reg[GivenTarget(t)].endpoints["api"]
    ELSE IF "url" \in DOMAIN t.recipe_target THEN t.recipe_target["url"]
    ELSE IF "endpoint_file" \in DOMAIN t.recipe_target THEN t.file_endpoint
    ELSE None

\* C26: target resolution follows the precedence: the explicit target when
\* it is a literal http:// or https:// URL; else the 'api' endpoint of the
\* registered service whose id is the explicit target; else the recipe's
\* declared target url; else the value of the ENDPOINT= line of the
\* recipe's declared endpoint file; else None.
C26_TargetPrecedence ==
    [][ResolveTargetEndpoint =>
         runner'.target.target_endpoint = TargetByPrecedence(runner'.target, services)]_vars

\* The target is the id of a running service and the recipe declares a url
\* too: the service's endpoint is the answer.
C26_Witness ==
    /\ runner.target.resolved
    /\ NamesService(runner.target, services)
    /\ "url" \in DOMAIN runner.target.recipe_target
    /\ runner.target.target_endpoint = "http://mel2091:8080"

\* C27 (as claimed): in every reachable state of the registry a service
\* whose stored status is RUNNING has a node and an 'api' endpoint, whether
\* the wait loop or get_service_status stored the RUNNING.
C27_RunningHasEndpoint ==
    (Registered /\ service.status = RUNNING) =>
      /\ service.node # None
      /\ "api" \in DOMAIN service.endpoints

\* C29 (as claimed): every record whose stored status is ERROR (FAILED for
\* a client run) carries a non-empty error message, whichever operation
\* stored the status.
C29_ErrorHasMessage ==
    /\ (Registered /\ service.status = ERROR) => Truthy(service.error_message)
    /\ (RunId \in DOMAIN runs /\ run.status = FAILED) => Truthy(run.error_message)

\* C28 (as claimed): once stop_monitor has set a monitor's status to
\* STOPPED, a get_monitor_status call does not change it to a non-terminal
\* status (PENDING, RUNNING, STOPPING, UNKNOWN), whatever the scheduler
\* answers for the monitor's job.
C28_StoppedMonitorStaysStopped ==
    [][(/\ monitor_manager.call.op = "stop_monitor"
        /\ monitor_manager.call.result = "True"
        /\ monitor_manager.monitors[MonitorId].status = STOPPED
        /\ MonitorManager_GetMonitorStatus)
         => monitor_manager'.monitors[MonitorId].status
               \notin {PENDING, RUNNING, STOPPING, UNKNOWN}]_vars

\* The ids a sequence of start calls drew.
Drawn(created) == {created[i] : i \in 1..Len(created)}

\* The id the start call of this step gave its instance.
Latest(created) == created[Len(created)]

\* C30: no start call gives a new instance an id that is, or earlier was,
\* the id of another record of the same registry: when start_service or
\* run_client creates and registers an instance, its id is none of the ids
\* the registry holds and none of the ids drawn by the start calls before,
\* so no record is replaced.
C30_IdsNeverReused ==
    [][/\ starter'.created # starter.created =>
             /\ Latest(starter'.created) \notin Drawn(starter.created)
             /\ Latest(starter'.created) \notin DOMAIN services
       /\ runner'.created # runner.created =>
             /\ Latest(runner'.created) \notin Drawn(runner.created)
             /\ Latest(runner'.created) \notin DOMAIN runs]_vars

====
